---- MODULE Spec2Model ----
(***************************************************************************)
(* A model of agentless-lite's patch pipeline: the SEARCH/REPLACE block    *)
(* parser (bug_repair.generate_fixes, fix_validation.parse_patch_hunks)    *)
(* and the patch applier (fix_validation.validate_fixes,                   *)
(* fix_validation.apply_patch_directly).                                   *)
(*                                                                         *)
(* Text is a sequence of one-character strings, so that Python's str       *)
(* operations (strip, splitlines, replace, in, join) and the universal     *)
(* newline translation of text-mode files are computed, not assumed.       *)
(***************************************************************************)
EXTENDS Integers, Sequences, FiniteSets, TLC

VARIABLES
    repo,             \* files under repo_path: file name -> raw characters on disk
    copy,             \* per run: the files under its temporary repo_copy
    fixes,            \* per run: the list of fix dicts handed to validate_fixes
    pc,               \* per run: position inside validate_fixes
    idx,              \* per run: number of fixes the for-loop has finished
    lines,            \* per run: the local lines of the current iteration
    current_content,  \* per run: the local current_content
    consolidated_diff, \* per run: names of the files git diff reports changed
    response,         \* the text the suggestion oracle returned (llm.call_llm)
    parsed,           \* the fixes generate_fixes extracted from response
    origin,           \* the fix whose edit block response is, None for oracle text
    ppc,              \* position of the parser: "response", "parsed", or "off"
    suggestion,       \* the fenced segments the oracle's response is made of
    hunks,            \* what parse_patch_hunks made of response, None before the call
    source_text,      \* the file text (content) handed to create_file_skeleton
    line_numbers,     \* its flag: prefix the kept lines with their line number
    skeleton,         \* the string create_file_skeleton returned
    spc,              \* position of the skeleton call: "content", "skeleton", "off"
    project,          \* the files under repo_path of the locator: path -> text
    context_window,   \* lines of context on each side of a located span
    file_path,        \* the file extract_relevant_sections is called for
    elements,         \* the elements it is called with
    sections,         \* what the call gave: a list, or raised; None before
    rpc,              \* position of the locator: "call", "sections", "off"
    code_elements,    \* the dict locate_code_elements returned: file -> elements
    line_response,    \* the oracle's response to the line-level prompt
    edit_locations,   \* the dict handed to generate_fixes: file -> locations
    located,          \* what locate_specific_lines gave, None before the call
    contents,         \* what generate_fixes collected for its prompt, None before
    lpc,              \* position of the resolver and of find_patch: "files",
                      \* "elements", "locate", "repair", "collected", "fixes",
                      \* "tests", "returned", "raised", or "off"
    file_response,    \* the oracle's response to the file-level prompt
    element_response, \* the oracle's response to the code-elements prompt
    buggy_files,      \* the list locate_buggy_files returned
    returned,         \* the diff find_patch returned: changed file -> its text
    write_failed,     \* the fixes, as run and index, whose write-back failed
    patch_disk,       \* the file apply_patch_directly is called on: its raw
                      \* characters on disk, None when there is no such file
    patch_before,     \* what the file was when apply_patch_directly was called
    hunk_list,        \* the hunks it is called with
    patch_lines,      \* its local lines
    hunk_idx,         \* number of hunks its for-loop has finished
    applied,          \* what it returned, None before it returns
    apc               \* its position: "call", "loop", "done", or "off"

applierVars == <<repo, copy, fixes, pc, idx, lines, current_content, consolidated_diff>>
parserVars == <<response, parsed, origin, ppc>>
blockVars == <<suggestion, hunks>>
skeletonVars == <<source_text, line_numbers, skeleton, spc>>
sectionVars == <<project, context_window, file_path, elements, sections, rpc>>
resolveVars == <<code_elements, line_response, edit_locations, located, contents, lpc>>
pipelineVars == <<file_response, element_response, buggy_files, returned>>
ioVars == <<write_failed>>
patchVars == <<patch_disk, patch_before, hunk_list, patch_lines, hunk_idx, applied, apc>>
extraVars == <<blockVars, skeletonVars, sectionVars, resolveVars, pipelineVars, ioVars, patchVars>>
vars == <<applierVars, parserVars, extraVars>>

----------------------------------------------------------------------------
(* Python str primitives over sequences of characters                      *)

Min(S) == CHOOSE x \in S : \A y \in S : x <= y
Max(S) == CHOOSE x \in S : \A y \in S : x >= y

\* the element of a one-element set: binds a value that is computed once
The(S) == CHOOSE x \in S : TRUE

\* str.isspace() on the characters the model uses
IsSpace(c) == c \in {" ", "\t", "\n", "\r"}

\* str.strip()
Strip(s) ==
    LET keep == {i \in 1..Len(s) : ~IsSpace(s[i])}
    IN  IF keep = {} THEN <<>> ELSE SubSeq(s, Min(keep), Max(keep))

\* s[p-1:].startswith(pat), p 1-based
MatchAt(s, p, pat) ==
    /\ p >= 1
    /\ p + Len(pat) - 1 <= Len(s)
    /\ \A k \in 1..Len(pat) : s[p + k - 1] = pat[k]

\* s.find(pat, from-1) + 1: the first position >= from where pat occurs, 0 if none
Find(s, pat, from) ==
    LET hits == {p \in from..(Len(s) - Len(pat) + 1) : MatchAt(s, p, pat)}
    IN  IF hits = {} THEN 0 ELSE Min(hits)

\* pat in s
Contains(s, pat) == Find(s, pat, 1) # 0

\* ''.join(parts)
RECURSIVE Join(_)
Join(parts) == IF parts = <<>> THEN <<>> ELSE Head(parts) \o Join(Tail(parts))

\* sep.join(parts)
RECURSIVE JoinWith(_, _)
JoinWith(parts, sep) ==
    IF parts = <<>> THEN <<>>
    ELSE IF Len(parts) = 1 THEN parts[1]
    ELSE parts[1] \o sep \o JoinWith(Tail(parts), sep)

RECURSIVE Interleave(_, _, _)
Interleave(s, new, i) ==
    IF i > Len(s) THEN new ELSE new \o <<s[i]>> \o Interleave(s, new, i + 1)

RECURSIVE ReplaceFrom(_, _, _, _)
ReplaceFrom(s, old, new, i) ==
    LET p == Find(s, old, i)
    IN  IF p = 0 THEN SubSeq(s, i, Len(s))
        ELSE SubSeq(s, i, p - 1) \o new \o ReplaceFrom(s, old, new, p + Len(old))

\* s.replace(old, new): every non-overlapping occurrence, left to right; an
\* empty old matches before every character and at the end
Replace(s, old, new) ==
    IF old = <<>> THEN Interleave(s, new, 1) ELSE ReplaceFrom(s, old, new, 1)

\* str.splitlines(keepends): line boundaries are "\n", "\r" and "\r\n"
RECURSIVE SplitLinesFrom(_, _, _)
SplitLinesFrom(s, i, keepends) ==
    IF i > Len(s) THEN <<>>
    ELSE LET brk == {p \in i..Len(s) : s[p] \in {"\n", "\r"}}
         IN  IF brk = {} THEN <<SubSeq(s, i, Len(s))>>
             ELSE LET p == Min(brk)
                      e == IF s[p] = "\r" /\ p < Len(s) /\ s[p + 1] = "\n"
                           THEN p + 1 ELSE p
                  IN  <<SubSeq(s, i, IF keepends THEN e ELSE p - 1)>>
                          \o SplitLinesFrom(s, e + 1, keepends)

splitlines(s, keepends) == SplitLinesFrom(s, 1, keepends)

\* Python list slice xs[lo:hi] with 0 <= lo, 0-based, hi exclusive, clipped
Slice(xs, lo, hi) ==
    LET h == IF hi > Len(xs) THEN Len(xs) ELSE hi
    IN  IF lo >= h THEN <<>> ELSE SubSeq(xs, lo + 1, h)

----------------------------------------------------------------------------
(* Text-mode file I/O                                                      *)

\* open(path, 'r'): newline=None translates "\r\n" and "\r" to "\n" on read
UniversalNewlines(raw) ==
    Replace(Replace(raw, <<"\r", "\n">>, <<"\n">>), <<"\r">>, <<"\n">>)

\* f.readlines()
readlines(raw) == splitlines(UniversalNewlines(raw), TRUE)

\* open(path, 'w', newline='\n'); f.writelines(lines): no translation on write
writelines(ls) == Join(ls)

----------------------------------------------------------------------------
(* bug_repair.generate_fixes: extraction of the SEARCH/REPLACE blocks      *)

None == <<>>
Some(n) == <<n>>

\* the backquote character is written "BQ": a string of the module cannot
\* hold the character itself
BQ == "BQ"
FENCE == <<BQ, BQ, BQ, "p", "y", "t", "h", "o", "n">>
TICKS == <<BQ, BQ, BQ>>
HASHES == <<"#", "#", "#">>
SEARCH_MARK == <<"<", "<", "<", "<", "<", "<", "<", " ", "S", "E", "A", "R", "C", "H">>
LINE_OPEN == <<"(", "l", "i", "n", "e", " ">>
DIVIDER == <<"=", "=", "=", "=", "=", "=", "=">>
REPLACE_MARK == <<">", ">", ">", ">", ">", ">", ">", " ", "R", "E", "P", "L", "A", "C", "E">>

\* str.split(sep)
RECURSIVE SplitFrom(_, _, _)
SplitFrom(s, sep, i) ==
    LET p == Find(s, sep, i)
    IN  IF p = 0 THEN <<SubSeq(s, i, Len(s))>>
        ELSE <<SubSeq(s, i, p - 1)>> \o SplitFrom(s, sep, p + Len(sep))

Split(s, sep) == SplitFrom(s, sep, 1)

\* str.strip(chars)
StripChars(s, chars) ==
    LET keep == {i \in 1..Len(s) : s[i] \notin chars}
    IN  IF keep = {} THEN <<>> ELSE SubSeq(s, Min(keep), Max(keep))

DigitVal ==
    ("0" :> 0) @@ ("1" :> 1) @@ ("2" :> 2) @@ ("3" :> 3) @@ ("4" :> 4)
        @@ ("5" :> 5) @@ ("6" :> 6) @@ ("7" :> 7) @@ ("8" :> 8) @@ ("9" :> 9)

IsDigit(c) == c \in DOMAIN DigitVal

\* int(digits)
RECURSIVE ParseInt(_)
ParseInt(ds) ==
    IF ds = <<>> THEN 0
    ELSE 10 * ParseInt(SubSeq(ds, 1, Len(ds) - 1)) + DigitVal[ds[Len(ds)]]

\* where a greedy run of whitespace (resp. of digits) that starts at i
\* stops: the first index at or after i that holds none
WsEnd(s, i) ==
    LET rest == {j \in i..Len(s) : ~IsSpace(s[j])}
    IN  IF rest = {} THEN Len(s) + 1 ELSE Min(rest)

DigitsEnd(s, i) ==
    LET rest == {j \in i..Len(s) : ~IsDigit(s[j])}
    IN  IF rest = {} THEN Len(s) + 1 ELSE Min(rest)

CharAt(s, i, c) == i >= 1 /\ i <= Len(s) /\ s[i] = c

\* re.search of the file header pattern (three hashes, whitespace, a lazy
\* group, a newline) in edit_command: Some(group 1), or None.  The
\* whitespace run after the first ### is taken whole and group 1 runs to the
\* next newline; when no newline follows the run, the run gives characters
\* back up to its last newline and group 1 is empty.
FileMatch(cmd) ==
    LET p == Find(cmd, HASHES, 1)
        q == p + Len(HASHES)
        e == WsEnd(cmd, q)
        nl == {j \in q..Len(cmd) : cmd[j] = "\n"}
        after == {j \in nl : j >= e}
    IN  IF p = 0 \/ nl = {} THEN None
        ELSE IF after # {} THEN Some(SubSeq(cmd, e, Min(after) - 1))
        ELSE Some(<<>>)

NoMatch == [ok |-> FALSE, g1 |-> None, g2 |-> None, g3 |-> <<>>, g4 |-> <<>>]

\* the tail of the search/replace pattern with DOTALL: a newline at nl, the
\* lazy group 3, the divider line, the lazy group 4, a newline and the
\* REPLACE marker
BodyMatch(cmd, nl, g1, g2) ==
    LET d == Find(cmd, <<"\n">> \o DIVIDER \o <<"\n">>, nl + 1)
        r == Find(cmd, <<"\n">> \o REPLACE_MARK, d + Len(DIVIDER) + 2)
    IN  IF ~CharAt(cmd, nl, "\n") \/ d = 0 \/ r = 0 THEN NoMatch
        ELSE [ok |-> TRUE, g1 |-> g1, g2 |-> g2,
              g3 |-> SubSeq(cmd, nl + 1, d - 1),
              g4 |-> SubSeq(cmd, d + Len(DIVIDER) + 2, r - 1)]

\* the alternative with the annotation "(line X)" or "(line X-Y)" at a,
\* after optional whitespace
AnnotatedMatch(cmd, a) ==
    LET e == WsEnd(cmd, a)
        n1 == e + Len(LINE_OPEN)
        f == DigitsEnd(cmd, n1)
        g == DigitsEnd(cmd, f + 1)
        range == CharAt(cmd, f, "-") /\ g > f + 1 /\ CharAt(cmd, g, ")")
    IN  IF ~MatchAt(cmd, e, LINE_OPEN) \/ f = n1 THEN NoMatch
        ELSE IF range
             THEN BodyMatch(cmd, g + 1, Some(SubSeq(cmd, n1, f - 1)),
                            Some(SubSeq(cmd, f + 1, g - 1)))
        ELSE IF CharAt(cmd, f, ")")
             THEN BodyMatch(cmd, f + 1, Some(SubSeq(cmd, n1, f - 1)), None)
        ELSE NoMatch

\* the search/replace regex tried at one occurrence p of '<<<<<<< SEARCH':
\* the optional annotation is tried first, then the match without it
MatchFrom(cmd, p) ==
    LET a == p + Len(SEARCH_MARK)
        annotated == AnnotatedMatch(cmd, a)
    IN  IF annotated.ok THEN annotated ELSE BodyMatch(cmd, a, None, None)

\* re.search(<the search/replace regex>, edit_command, re.DOTALL)
SearchReplaceMatch(cmd) ==
    LET hits == {p \in 1..Len(cmd) : MatchAt(cmd, p, SEARCH_MARK) /\ MatchFrom(cmd, p).ok}
    IN  IF hits = {} THEN NoMatch ELSE MatchFrom(cmd, Min(hits))

\* block.split(<three backquotes>)[0].strip()
EditCommand(block) == Strip(Head(Split(block, TICKS)))

\* the fix dict built from one fenced block, as a list of zero or one fix
BlockFixes(block) ==
    LET cmd == EditCommand(block)
        file_match == FileMatch(cmd)
        m == SearchReplaceMatch(cmd)
        start_line == IF m.g1 # None THEN Some(ParseInt(m.g1[1])) ELSE None
        end_line == IF m.g2 # None THEN Some(ParseInt(m.g2[1])) ELSE start_line
    IN  IF file_match = None \/ ~m.ok THEN <<>>
        ELSE << [file |-> StripChars(Strip(file_match[1]), {"/"}),
                 search |-> Strip(m.g3),
                 replace |-> Strip(m.g4),
                 start_line |-> start_line,
                 end_line |-> end_line,
                 line_number |-> None,
                 fix |-> cmd,
                 score |-> 0] >>

RECURSIVE FixesOfBlocks(_)
FixesOfBlocks(blocks) ==
    IF blocks = <<>> THEN <<>>
    ELSE BlockFixes(Head(blocks)) \o FixesOfBlocks(Tail(blocks))

\* the fixes generate_fixes extracts from one response
generate_fixes(text) ==
    IF Contains(text, FENCE) THEN FixesOfBlocks(Tail(Split(text, FENCE)))
    ELSE <<>>

----------------------------------------------------------------------------
(* fix_validation.validate_fixes: the loop body as functions of its locals *)

\* fix['search'].strip(), fix['replace'].strip()
search_content(fix) == Strip(fix.search)
replace_content(fix) == Strip(fix.replace)

\* 'line_number' in fix and fix['line_number']
HasLineNumber(fix) == fix.line_number # None /\ fix.line_number[1] # 0

\* the slack of the hinted window, in lines
Slack == 2

\* len(search_content.splitlines())
SearchLineCount(fix) == Len(splitlines(search_content(fix), FALSE))

\* The hinted scan: the first 0-based i in range(window_start, window_end)
\* whose slice lines[i:i+n], joined and stripped, equals the search text;
\* -1 when the scan finds none.
HintedIndex(ls, search, line_number) ==
    LET n == Len(splitlines(search, FALSE))
        start_line == line_number - 1
        window_start == IF start_line - Slack > 0 THEN start_line - Slack ELSE 0
        window_end == IF Len(ls) < start_line + n + Slack
                      THEN Len(ls) ELSE start_line + n + Slack
        hits == {i \in window_start..(window_end - 1) :
                    Strip(Join(Slice(ls, i, i + n))) = search}
    IN  IF hits = {} THEN -1 ELSE Min(hits)

\* The hinted branch: lines[i:i+n] = replace_content.splitlines(True)
HintedBranch(ls, fix) ==
    LET i == HintedIndex(ls, search_content(fix), fix.line_number[1])
        n == SearchLineCount(fix)
    IN  IF i >= 0
        THEN [lines |-> Slice(ls, 0, i) \o splitlines(replace_content(fix), TRUE)
                            \o Slice(ls, i + n, Len(ls)),
              score |-> 1]
        ELSE [lines |-> ls, score |-> 0]

\* The branch without line_number: str.replace on the whole content
WholeFileBranch(ls, content, fix) ==
    IF Contains(content, search_content(fix))
    THEN [lines |-> splitlines(Replace(content, search_content(fix),
                                       replace_content(fix)), TRUE),
          score |-> 1]
    ELSE [lines |-> ls, score |-> 0]

\* (mutant) the hint is read from the key start_line
MatchAndModifyByStartLine(ls, content, fix) ==
    IF fix.start_line # None /\ fix.start_line[1] # 0
    THEN HintedBranch(ls, [fix EXCEPT !.line_number = fix.start_line])
    ELSE WholeFileBranch(ls, content, fix)

\* One iteration between the read and the write: the new lines and the score
MatchAndModify(ls, content, fix) ==
    IF HasLineNumber(fix) THEN HintedBranch(ls, fix)
    ELSE WholeFileBranch(ls, content, fix)

\* One whole iteration on the raw characters of the target file
ApplyFix(raw, fix) ==
    LET ls == readlines(raw)
        res == MatchAndModify(ls, Join(ls), fix)
    IN  [raw |-> writelines(res.lines), score |-> res.score]

----------------------------------------------------------------------------
(* Inputs                                                                  *)

MaxFixes == 2   \* longest batch of fixes handed to one validate_fixes call
NumRuns == 2    \* validate_fixes calls running at the same time

Runs == 1..NumRuns

NL == <<"\n">>
CRLF == <<"\r", "\n">>

CartLine1 == <<"d", "e", "f", " ", "t", "o", "t", "a", "l", "(", "c", "a", "r", "t", ")", ":">>
CartLine2 == <<" ", " ", " ", " ", "t", " ", "=", " ", "0">>
CartLine3 == <<" ", " ", " ", " ", "f", "o", "r", " ", "i", " ", "i", "n", " ", "c", "a", "r", "t", ":">>
CartLine4 == <<" ", " ", " ", " ", " ", " ", " ", " ", "t", " ", "+", "=", " ", "i">>
CartLine5 == <<" ", " ", " ", " ", "r", "e", "t", "u", "r", "n", " ", "t">>

\* cart.py of the specification's scenario: five lines, no final newline
CartPy == CartLine1 \o NL \o CartLine2 \o NL \o CartLine3 \o NL
              \o CartLine4 \o NL \o CartLine5

T_plus_i == <<"t", " ", "+", "=", " ", "i">>
T_plus_i_price == <<"t", " ", "+", "=", " ", "i", ".", "p", "r", "i", "c", "e">>
T_minus_i == <<"t", " ", "-", "=", " ", "i">>

\* contents of the file the fixes aim at
FileContents ==
    { CartPy,
      <<"a">> \o CRLF \o <<"b">> \o CRLF,                   \* CRLF line endings
      <<"a">> \o NL \o <<"a">> \o NL,                       \* the text twice
      <<"b">> \o NL \o <<"b">> \o NL \o <<"b">> \o NL \o <<"a">> \o NL,
      <<"a">> \o NL \o <<"b">> \o NL,
      <<" ", " ", "a">> \o NL \o <<"x", "a">> }             \* indented; inside a token

Repos == { [f \in {"cart.py", "util.py"} |->
               IF f = "cart.py" THEN c ELSE <<"a">> \o NL] : c \in FileContents }

Fix(file, search, replace, hint, line_number) ==
    [file |-> file, search |-> search, replace |-> replace,
     start_line |-> hint, end_line |-> hint,
     line_number |-> line_number, fix |-> <<>>, score |-> 0]

\* fixes as generate_fixes builds them (start_line/end_line, no line_number)
\* and fixes that carry the line_number key validate_fixes reads
Ops ==
    { Fix("cart.py", T_plus_i, T_plus_i_price, Some(4), None),
      Fix("cart.py", T_plus_i, T_plus_i_price, Some(4), Some(4)),
      Fix("cart.py", T_minus_i, <<"x">>, None, None),
      Fix("cart.py", <<"a">>, <<"b">>, None, None),
      Fix("cart.py", <<"b">>, <<"c">>, None, None),
      Fix("cart.py", <<"a">>, <<"c">>, Some(1), Some(1)),
      Fix("gone.py", <<"a">>, <<"b">>, None, None),
      Fix("util.py", <<"a">>, <<"b">>, None, None) }

RECURSIVE SeqsUpTo(_, _)
SeqsUpTo(S, n) ==
    IF n = 0 THEN {<<>>}
    ELSE LET shorter == SeqsUpTo(S, n - 1)
         IN  shorter \cup {Append(b, x) : b \in shorter, x \in S}

Batches == SeqsUpTo(Ops, MaxFixes)

\* concurrent attempts: each run's batch
ConcBatches ==
    { <<Fix("cart.py", <<"a">>, <<"b">>, None, None)>>,
      <<Fix("cart.py", <<"a">>, <<"b">>, None, None),
        Fix("cart.py", <<"b">>, <<"c">>, None, None)>>,
      <<Fix("cart.py", <<"b">>, <<"c">>, None, Some(2))>>,
      <<Fix("gone.py", <<"a">>, <<"b">>, None, None)>> }

ConcRepos ==
    { [f \in {"cart.py"} |-> c] :
        c \in { <<"a">> \o NL \o <<"b">> \o NL, <<"a">> \o CRLF \o <<"a">> } }

----------------------------------------------------------------------------
(* fix_validation.parse_patch_hunks                                        *)

HEADER_PREFIX == <<"#", "#", "#", " ">>

\* re.search of "(line X-Y)" in one line: Some(X) at the first place where
\* the pattern matches, None when it matches nowhere
LineNums(line) ==
    LET ok(p) ==
            LET n1 == p + Len(LINE_OPEN)
                f == DigitsEnd(line, n1)
                g == DigitsEnd(line, f + 1)
            IN  /\ MatchAt(line, p, LINE_OPEN)
                /\ f > n1 /\ CharAt(line, f, "-")
                /\ g > f + 1 /\ CharAt(line, g, ")")
        hits == {p \in 1..Len(line) : ok(p)}
    IN  IF hits = {} THEN None
        ELSE LET n1 == Min(hits) + Len(LINE_OPEN)
             IN  Some(ParseInt(SubSeq(line, n1, DigitsEnd(line, n1) - 1)))

\* the locals of parse_patch_hunks: files is the dict in insertion order,
\* raised is set once files[current_file] raised KeyError
NoHunks == [files |-> <<>>, current_file |-> None, current_hunk |-> None,
            in_old |-> FALSE, raised |-> FALSE]

HasKey(files, name) == \E i \in 1..Len(files) : files[i].file = name

\* files[name] = []
ResetKey(files, name) ==
    IF HasKey(files, name)
    THEN [i \in 1..Len(files) |->
             IF files[i].file = name THEN [files[i] EXCEPT !.hunks = <<>>] ELSE files[i]]
    ELSE Append(files, [file |-> name, hunks |-> <<>>])

\* files[name].append(hunk)
AppendHunk(files, name, hunk) ==
    [i \in 1..Len(files) |->
        IF files[i].file = name
        THEN [files[i] EXCEPT !.hunks = Append(files[i].hunks, hunk)] ELSE files[i]]

\* one iteration of the loop over the lines of a block
HunkLine(st, line) ==
    IF st.raised THEN st
    ELSE IF MatchAt(line, 1, HEADER_PREFIX)
    THEN LET name == Strip(SubSeq(line, 5, Len(line)))
         IN  [st EXCEPT !.current_file = Some(name), !.files = ResetKey(st.files, name)]
    ELSE IF Contains(line, SEARCH_MARK)
    THEN [st EXCEPT !.current_hunk = Some([start |-> LineNums(line), old |-> <<>>, new |-> <<>>]),
                    !.in_old = TRUE]
    ELSE IF line = DIVIDER /\ st.current_hunk # None
    THEN [st EXCEPT !.in_old = FALSE]
    ELSE IF MatchAt(line, 1, REPLACE_MARK)
    THEN IF st.current_hunk = None THEN st
         ELSE IF st.current_file = None \/ ~HasKey(st.files, st.current_file[1])
         THEN [st EXCEPT !.raised = TRUE]
         ELSE [st EXCEPT !.files = AppendHunk(st.files, st.current_file[1], st.current_hunk[1]),
                         !.current_hunk = None]
    ELSE IF st.current_hunk # None /\ Strip(line) # <<>>
    THEN IF st.in_old
         THEN [st EXCEPT !.current_hunk = Some([st.current_hunk[1] EXCEPT !.old = Append(@, line \o <<"\n">>)])]
         ELSE [st EXCEPT !.current_hunk = Some([st.current_hunk[1] EXCEPT !.new = Append(@, line \o <<"\n">>)])]
    ELSE st

RECURSIVE HunkLines(_, _)
HunkLines(st, ls) ==
    IF ls = <<>> THEN st ELSE HunkLines(HunkLine(st, Head(ls)), Tail(ls))

RECURSIVE HunkBlocks(_, _)
HunkBlocks(st, blocks) ==
    IF blocks = <<>> THEN st
    ELSE LET block == Head(blocks)
         IN  HunkBlocks(IF Strip(block) = <<>> THEN st
                        ELSE HunkLines(st, Split(block, <<"\n">>)),
                        Tail(blocks))

\* the dict parse_patch_hunks returns, or raised when it ends in KeyError
parse_patch_hunks(patch_content) ==
    LET st == HunkBlocks(NoHunks, Split(patch_content, FENCE))
    IN  [raised |-> st.raised, files |-> IF st.raised THEN <<>> ELSE st.files]

----------------------------------------------------------------------------
(* validate_fixes as a state machine, one process per call                 *)

NoFiles == <<>>

\* (mutant) the iteration reads the content from before the batch
ReadStale(r, f) == repo[f]

\* the file the current iteration opens: os.path.join(repo_copy, ...)
ReadTarget(r, f) == copy[r][f]
TargetExists(r, f) == f \in DOMAIN copy[r]

\* (mutant) the iteration writes under repo_path instead of repo_copy
WriteInPlace(r, f, text) ==
    /\ repo' = [repo EXCEPT ![f] = text]
    /\ copy' = copy

\* the write of the current iteration goes to the same path
WriteTarget(r, f, text) ==
    /\ copy' = [copy EXCEPT ![r] = [copy[r] EXCEPT ![f] = text]]
    /\ repo' = repo

CurrentFix(r) == fixes[r][idx[r] + 1]

SetScore(r, s) == fixes' = [fixes EXCEPT ![r][idx[r] + 1].score = s]

\* tempfile.TemporaryDirectory + shutil.copytree(repo_path, repo_copy)
CopyTree(r) ==
    /\ pc[r] = "idle"
    /\ copy' = [copy EXCEPT ![r] = repo]
    /\ pc' = [pc EXCEPT ![r] = "loop"]
    /\ UNCHANGED <<repo, fixes, idx, lines, current_content, consolidated_diff, parserVars, extraVars>>

\* with open(full_path, 'r') as f: lines = f.readlines()
OpenRead(r) ==
    /\ pc[r] = "loop"
    /\ idx[r] < Len(fixes[r])
    /\ TargetExists(r, CurrentFix(r).file)
    /\ lines' = [lines EXCEPT ![r] = readlines(ReadTarget(r, CurrentFix(r).file))]
    /\ current_content' = [current_content EXCEPT ![r] = Join(lines'[r])]
    /\ pc' = [pc EXCEPT ![r] = "opened"]
    /\ UNCHANGED <<repo, copy, fixes, idx, consolidated_diff, parserVars, extraVars>>

\* (mutant) the exception ends the loop instead of continue
OpenFailsAborts(r) ==
    /\ pc[r] = "loop"
    /\ idx[r] < Len(fixes[r])
    /\ ~(CurrentFix(r).file \in DOMAIN copy[r])
    /\ fixes' = [fixes EXCEPT ![r][idx[r] + 1].score = 0]
    /\ idx' = [idx EXCEPT ![r] = Len(fixes[r])]
    /\ UNCHANGED <<repo, copy, pc, lines, current_content, consolidated_diff, parserVars, extraVars>>

\* open() raises: except Exception: fix['score'] = 0; continue
OpenFails(r) ==
    /\ pc[r] = "loop"
    /\ idx[r] < Len(fixes[r])
    /\ ~TargetExists(r, CurrentFix(r).file)
    /\ SetScore(r, 0)
    /\ idx' = [idx EXCEPT ![r] = idx[r] + 1]
    /\ UNCHANGED <<repo, copy, pc, lines, current_content, consolidated_diff, parserVars, extraVars>>

\* match, modify lines, set the score, write the file back
MatchWrite(r) ==
    /\ pc[r] = "opened"
    /\ LET fix == CurrentFix(r)
           res == MatchAndModify(lines[r], current_content[r], fix)
       IN  /\ lines' = [lines EXCEPT ![r] = res.lines]
           /\ SetScore(r, res.score)
           /\ WriteTarget(r, fix.file, writelines(res.lines))
    /\ idx' = [idx EXCEPT ![r] = idx[r] + 1]
    /\ pc' = [pc EXCEPT ![r] = "loop"]
    /\ UNCHANGED <<current_content, consolidated_diff, parserVars, extraVars>>

\* git diff in repo_copy against the commit made of the copied tree
GitDiff(r) ==
    /\ pc[r] = "loop"
    /\ idx[r] = Len(fixes[r])
    /\ consolidated_diff' = [consolidated_diff EXCEPT ![r] =
           {f \in DOMAIN copy[r] : f \notin DOMAIN repo \/ copy[r][f] # repo[f]}]
    /\ pc' = [pc EXCEPT ![r] = "done"]
    /\ UNCHANGED <<repo, copy, fixes, idx, lines, current_content, parserVars, extraVars>>

Next ==
    \E r \in Runs :
        \/ CopyTree(r)
        \/ OpenRead(r)
        \/ OpenFails(r)
        \/ MatchWrite(r)
        \/ GitDiff(r)

ParserOff ==
    /\ response = <<>>
    /\ parsed = <<>>
    /\ origin = None
    /\ ppc = "off"

BlocksOff ==
    /\ suggestion = <<>>
    /\ hunks = None

SkeletonOff ==
    /\ source_text = <<>>
    /\ line_numbers = FALSE
    /\ skeleton = <<>>
    /\ spc = "off"

SectionsOff ==
    /\ project = NoFiles
    /\ context_window = 0
    /\ file_path = <<>>
    /\ elements = <<>>
    /\ sections = None
    /\ rpc = "off"

ResolveOff ==
    /\ code_elements = <<>>
    /\ line_response = <<>>
    /\ edit_locations = <<>>
    /\ located = None
    /\ contents = None
    /\ lpc = "off"

PipelineOff ==
    /\ file_response = <<>>
    /\ element_response = <<>>
    /\ buggy_files = <<>>
    /\ returned = None

IoOff == write_failed = {}

PatchOff ==
    /\ patch_disk = None
    /\ patch_before = None
    /\ hunk_list = <<>>
    /\ patch_lines = <<>>
    /\ hunk_idx = 0
    /\ applied = None
    /\ apc = "off"

ExtraOff ==
    BlocksOff /\ SkeletonOff /\ SectionsOff /\ ResolveOff /\ PipelineOff /\ IoOff /\ PatchOff

InitLocals ==
    /\ ParserOff
    /\ ExtraOff
    /\ copy = [r \in Runs |-> NoFiles]
    /\ idx = [r \in Runs |-> 0]
    /\ lines = [r \in Runs |-> <<>>]
    /\ current_content = [r \in Runs |-> <<>>]
    /\ consolidated_diff = [r \in Runs |-> {}]

\* one attempt: run 1 validates a batch, the other runs are never started
Init ==
    /\ repo \in Repos
    /\ \E b \in Batches : fixes = [r \in Runs |-> IF r = 1 THEN b ELSE <<>>]
    /\ pc = [r \in Runs |-> IF r = 1 THEN "idle" ELSE "off"]
    /\ InitLocals

Spec == Init /\ [][Next]_vars

\* concurrent attempts on one repo_path
InitConc ==
    /\ repo \in ConcRepos
    /\ fixes \in [Runs -> ConcBatches]
    /\ pc = [r \in Runs |-> "idle"]
    /\ InitLocals

SpecConc == InitConc /\ [][Next]_vars

\* attempts on one repo_path whose batches are the same operations under
\* different line hints, as generate_fixes builds them: start_line and
\* end_line from the annotation, no line_number
HintBatches ==
    { <<Fix("cart.py", <<"a">>, <<"b">>, hint, None)>> : hint \in {None, Some(1), Some(7)} }
    \cup { <<Fix("cart.py", <<"q">>, <<"r">>, hint, None)>> : hint \in {None, Some(1)} }
    \cup { <<Fix("gone.py", <<"a">>, <<"b">>, hint, None)>> : hint \in {None, Some(1)} }
    \cup { <<Fix("cart.py", <<"a">>, <<"b">>, hint, None),
             Fix("cart.py", <<"b">>, <<"c">>, None, None)>> : hint \in {None, Some(2)} }

InitHints ==
    /\ repo \in ConcRepos
    /\ fixes \in [Runs -> HintBatches]
    /\ pc = [r \in Runs |-> "idle"]
    /\ InitLocals

SpecHints == InitHints /\ [][Next]_vars

\* the write-back raises OSError: open(full_path, 'w') fails and the file is
\* what it was, or it has truncated the file and writelines fails; the
\* except clause sets the score to 0 and the loop continues
WriteFails(r) ==
    /\ pc[r] = "opened"
    /\ lines' = [lines EXCEPT ![r] =
           MatchAndModify(lines[r], current_content[r], CurrentFix(r)).lines]
    /\ SetScore(r, 0)
    /\ \E left \in {ReadTarget(r, CurrentFix(r).file), <<>>} :
           WriteTarget(r, CurrentFix(r).file, left)
    /\ write_failed' = write_failed \cup {<<r, idx[r] + 1>>}
    /\ idx' = [idx EXCEPT ![r] = idx[r] + 1]
    /\ pc' = [pc EXCEPT ![r] = "loop"]
    /\ UNCHANGED <<current_content, consolidated_diff, parserVars, blockVars,
                   skeletonVars, sectionVars, resolveVars, pipelineVars, patchVars>>

NextIO ==
    \/ Next
    \/ \E r \in Runs : WriteFails(r)

\* one run of validate_fixes on a file system whose writes can fail
SpecIO == Init /\ [][NextIO]_vars
----------------------------------------------------------------------------
(* The block parser as a state machine: the oracle's response is parsed;   *)
(* a parsed fix written back in the edit-block syntax is a response again  *)

MaxLine == 5   \* largest line number an annotation of the inputs names

Headers ==
    { <<"#", "#", "#", " ", "c", ".", "p", "y">>,
      <<"#", "#", "#", " ", "/", "s", "/", "c", ".", "p", "y">>,
      <<"#", "#", "#">> }

DigitChar(n) == CHOOSE c \in DOMAIN DigitVal : DigitVal[c] = n

\* str(n)
RECURSIVE FormatInt(_)
FormatInt(n) ==
    IF n < 10 THEN <<DigitChar(n)>>
    ELSE FormatInt(n \div 10) \o <<DigitChar(n % 10)>>

Annotation(x, y) ==
    <<" ">> \o LINE_OPEN \o FormatInt(x) \o <<"-">> \o FormatInt(y) \o <<")">>

SearchLines ==
    { SEARCH_MARK,
      SEARCH_MARK \o <<" ">> \o LINE_OPEN \o FormatInt(4) \o <<")">> }
        \cup { SEARCH_MARK \o Annotation(x, MaxLine) : x \in {4, MaxLine} }

OldTexts ==
    { CartLine4,                                            \* indented first line
      <<"a">> \o NL \o NL \o <<" ", " ", "b">>,             \* internal blank line
      NL \o <<" ", " ", "a">> \o NL,                        \* blank lines around
      <<"a">> \o NL \o DIVIDER \o <<" ">>,                  \* a divider look-alike
      T_plus_i }

NewTexts ==
    { <<" ", " ", " ", " ", " ", " ", " ", " ">> \o T_plus_i_price,
      <<"x">>,
      <<>>,
      <<" ", " ", "b">> \o NL \o NL \o <<" ", " ", "c">> }

\* a fenced edit block in the syntax the prompt asks the oracle for
EditBlock(header, searchLine, old, new) ==
    FENCE \o NL \o header \o NL \o searchLine \o NL \o old \o NL
        \o DIVIDER \o NL \o new \o NL \o REPLACE_MARK \o NL \o TICKS

Prose == <<"F", "i", "x", ":">> \o NL

Responses ==
    { Prose \o EditBlock(h, sl, o, n) :
        h \in Headers, sl \in SearchLines, o \in OldTexts, n \in NewTexts }
    \cup { Prose,
           Prose \o FENCE \o NL \o SEARCH_MARK \o NL \o <<"a">> \o NL \o DIVIDER
               \o NL \o <<"b">> \o NL \o REPLACE_MARK \o NL \o TICKS }

\* a fix written in the edit-block syntax: the file header, the SEARCH marker
\* with the line range when the fix has one, oldText, the divider, newText,
\* the REPLACE marker, inside a fence
Serialize(fix) ==
    EditBlock(HASHES \o <<" ">> \o fix.file,
              IF fix.start_line = None THEN SEARCH_MARK
              ELSE SEARCH_MARK \o Annotation(fix.start_line[1], fix.end_line[1]),
              fix.search, fix.replace)

\* response = llm.call_llm(prompt); the block extraction of generate_fixes
ParseResponse ==
    /\ ppc = "response"
    /\ parsed' = generate_fixes(response)
    /\ ppc' = "parsed"
    /\ UNCHANGED <<response, origin, applierVars, extraVars>>

\* a parsed fix, written in the edit-block syntax, comes back as a response
Reserialize ==
    /\ ppc = "parsed"
    /\ origin = None
    /\ \E k \in 1..Len(parsed) :
          /\ origin' = Some(parsed[k])
          /\ response' = Serialize(parsed[k])
    /\ ppc' = "response"
    /\ UNCHANGED <<parsed, applierVars, extraVars>>

NextParse == ParseResponse \/ Reserialize

InitParse ==
    /\ response \in Responses
    /\ parsed = <<>>
    /\ origin = None
    /\ ppc = "response"
    /\ repo = NoFiles
    /\ copy = [r \in Runs |-> NoFiles]
    /\ fixes = [r \in Runs |-> <<>>]
    /\ pc = [r \in Runs |-> "off"]
    /\ idx = [r \in Runs |-> 0]
    /\ lines = [r \in Runs |-> <<>>]
    /\ current_content = [r \in Runs |-> <<>>]
    /\ consolidated_diff = [r \in Runs |-> {}]
    /\ ExtraOff

SpecParse == InitParse /\ [][NextParse]_vars

----------------------------------------------------------------------------
(* Both block parsers on a response made of several fenced segments        *)

MaxBlocks == 3   \* most fenced segments in one response

ApplierOff ==
    /\ repo = NoFiles
    /\ copy = [r \in Runs |-> NoFiles]
    /\ fixes = [r \in Runs |-> <<>>]
    /\ pc = [r \in Runs |-> "off"]
    /\ idx = [r \in Runs |-> 0]
    /\ lines = [r \in Runs |-> <<>>]
    /\ current_content = [r \in Runs |-> <<>>]
    /\ consolidated_diff = [r \in Runs |-> {}]

A_PY == <<"a", ".", "p", "y">>
B_PY == <<"b", ".", "p", "y">>

Op(file, old, new) == [file |-> file, search |-> old, replace |-> new]

\* a segment in the edit-block syntax, and the operation it states
GoodSegment(file, searchLine, old, new) ==
    [ok |-> TRUE,
     op |-> Op(file, old, new),
     text |-> EditBlock(HASHES \o <<" ">> \o file, searchLine, old, new)]

\* the same segment with one of its parts left out
NoHeader(old, new) ==
    [ok |-> FALSE, op |-> Op(<<>>, old, new),
     text |-> FENCE \o NL \o SEARCH_MARK \o NL \o old \o NL \o DIVIDER \o NL
                  \o new \o NL \o REPLACE_MARK \o NL \o TICKS]

NoDivider(file, old, new) ==
    [ok |-> FALSE, op |-> Op(file, old, new),
     text |-> FENCE \o NL \o HASHES \o <<" ">> \o file \o NL \o SEARCH_MARK \o NL
                  \o old \o NL \o new \o NL \o REPLACE_MARK \o NL \o TICKS]

NoReplaceMark(file, old, new) ==
    [ok |-> FALSE, op |-> Op(file, old, new),
     text |-> FENCE \o NL \o HASHES \o <<" ">> \o file \o NL \o SEARCH_MARK \o NL
                  \o old \o NL \o DIVIDER \o NL \o new \o NL \o TICKS]

Segments ==
    { GoodSegment(A_PY, SEARCH_MARK, <<"a">>, <<"b">>),
      GoodSegment(A_PY, SEARCH_MARK \o Annotation(4, 4), <<"c">>, <<"d">>),
      GoodSegment(B_PY, SEARCH_MARK, <<"e">>, <<"f">>),
      NoHeader(<<"g">>, <<"h">>),
      NoDivider(B_PY, <<"i">>, <<"j">>),
      NoReplaceMark(A_PY, <<"k">>, <<"l">>),
      GoodSegment(B_PY, SEARCH_MARK \o <<" ">> \o LINE_OPEN \o FormatInt(4) \o <<")">>, <<"m">>, <<"n">>),
      GoodSegment(A_PY, SEARCH_MARK \o Annotation(4, MaxLine), <<"p">>, <<"q">>) }

Suggestions == SeqsUpTo(Segments, MaxBlocks)

\* the response text: prose, then the segments, a newline between them
SuggestionText(segs) ==
    Prose \o JoinWith([i \in 1..Len(segs) |-> segs[i].text], NL)

\* parse_patch_hunks(response)
ParsePatchHunks ==
    /\ ppc \in {"response", "parsed"}
    /\ suggestion # <<>>
    /\ hunks = None
    /\ hunks' = Some(parse_patch_hunks(response))
    /\ UNCHANGED <<suggestion, parserVars, applierVars, skeletonVars, sectionVars,
                   resolveVars, pipelineVars, ioVars, patchVars>>

NextBlocks == ParseResponse \/ ParsePatchHunks

InitBlocks ==
    /\ suggestion \in Suggestions \ {<<>>}
    /\ response = SuggestionText(suggestion)
    /\ parsed = <<>>
    /\ origin = None
    /\ ppc = "response"
    /\ hunks = None
    /\ ApplierOff
    /\ SkeletonOff
    /\ SectionsOff
    /\ ResolveOff
    /\ PipelineOff
    /\ IoOff
    /\ PatchOff

SpecBlocks == InitBlocks /\ [][NextBlocks]_vars

----------------------------------------------------------------------------
(* fix_validation.apply_patch_directly                                     *)

\* the slack of the window around the hinted line, in lines
PatchSlack == 2

Hunk(start, old, new) == [start |-> start, old |-> old, new |-> new]

\* the hinted branch: the first i in range(window_start, window_end - n + 1)
\* whose slice lines[i:i+n], joined and stripped, equals the search text;
\* -1 when the scan finds none
WindowIndex(ls, hunk) ==
    LET start == hunk.start[1] - 1
        n == Len(hunk.old)
        window_start == Max({0, start - PatchSlack})
        window_end == Min({Len(ls), start + n + PatchSlack})
        hits == {i \in window_start..(window_end - n) :
                    Strip(Join(Slice(ls, i, i + n))) = Strip(Join(hunk.old))}
    IN  IF hits = {} THEN -1 ELSE Min(hits)

\* the content-based search: the number of newlines before the first place
\* of the search text in the joined lines; -1 when index raises ValueError
ContentIndex(ls, hunk) ==
    LET file_content == Join(ls)
        pos == Find(file_content, Strip(Join(hunk.old)), 1)
    IN  IF pos = 0 THEN -1
        ELSE Cardinality({k \in 1..(pos - 1) : file_content[k] = "\n"})

\* where the hunk goes, as a 0-based line index; -1 when it is not found
HunkStart(ls, hunk) ==
    IF hunk.start # None THEN WindowIndex(ls, hunk) ELSE ContentIndex(ls, hunk)

\* (mutant) the new lines are put in front of the old ones
InsertLines(ls, start, n, new) ==
    Slice(ls, 0, start) \o new \o Slice(ls, start, Len(ls))

\* lines[start:start + n] = new
ReplaceLines(ls, start, n, new) ==
    Slice(ls, 0, start) \o new \o Slice(ls, start + n, Len(ls))

----------------------------------------------------------------------------
(* apply_patch_directly as a state machine: one step per hunk              *)

MaxHunks == 2   \* most hunks handed to one call

\* six lines; the same file with CRLF line ends, cut to two lines
PatchFile == <<"a", "\n", "b", "\n", "c", "\n", "d", "\n", "e", "\n", "f", "\n">>
PatchFileCRLF == <<"a", "\r", "\n", "b", "\r", "\n">>

HunkPool ==
    { Hunk(None, << <<"b", "\n">> >>, << <<"x", "\n">> >>),                 \* found by content
      Hunk(Some(2), << <<"x", "\n">> >>, << <<"y", "\n">>, <<"z", "\n">> >>), \* found once b is x
      Hunk(None, << <<"q", "\n">> >>, << <<"r", "\n">> >>),                 \* not in the file
      Hunk(Some(1), << <<"c", "\n">> >>, <<>>),                             \* two lines below the hint
      Hunk(Some(6), << <<"a", "\n">> >>, << <<"k", "\n">> >>) }             \* outside the window

\* with open(file_path, 'r') as f: lines = f.readlines()
PatchOpen ==
    /\ apc = "call"
    /\ patch_disk # None
    /\ patch_lines' = readlines(patch_disk[1])
    /\ apc' = "loop"
    /\ UNCHANGED <<patch_disk, patch_before, hunk_list, hunk_idx, applied,
                   applierVars, parserVars, blockVars, skeletonVars, sectionVars,
                   resolveVars, pipelineVars, ioVars>>

\* open raises: except Exception: return False
PatchOpenFails ==
    /\ apc = "call"
    /\ patch_disk = None
    /\ applied' = Some(FALSE)
    /\ apc' = "done"
    /\ UNCHANGED <<patch_disk, patch_before, hunk_list, patch_lines, hunk_idx,
                   applierVars, parserVars, blockVars, skeletonVars, sectionVars,
                   resolveVars, pipelineVars, ioVars>>

\* one iteration of the loop over the hunks: return False when the hunk is
\* not found, replace the lines otherwise
PatchHunk ==
    /\ apc = "loop"
    /\ hunk_idx < Len(hunk_list)
    /\ LET hunk == hunk_list[hunk_idx + 1]
           start == HunkStart(patch_lines, hunk)
       IN  IF start < 0
           THEN /\ applied' = Some(FALSE)
                /\ apc' = "done"
                /\ UNCHANGED <<patch_lines, hunk_idx>>
           ELSE /\ patch_lines' = ReplaceLines(patch_lines, start, Len(hunk.old), hunk.new)
                /\ hunk_idx' = hunk_idx + 1
                /\ UNCHANGED <<applied, apc>>
    /\ UNCHANGED <<patch_disk, patch_before, hunk_list,
                   applierVars, parserVars, blockVars, skeletonVars, sectionVars,
                   resolveVars, pipelineVars, ioVars>>

\* with open(file_path, 'w', newline='\n') as f: f.writelines(lines); return True
PatchWrite ==
    /\ apc = "loop"
    /\ hunk_idx = Len(hunk_list)
    /\ patch_disk' = Some(writelines(patch_lines))
    /\ applied' = Some(TRUE)
    /\ apc' = "done"
    /\ UNCHANGED <<patch_before, hunk_list, patch_lines, hunk_idx,
                   applierVars, parserVars, blockVars, skeletonVars, sectionVars,
                   resolveVars, pipelineVars, ioVars>>

NextPatch == PatchOpen \/ PatchOpenFails \/ PatchHunk \/ PatchWrite

InitPatch ==
    /\ patch_disk \in {Some(PatchFile), Some(PatchFileCRLF), None}
    /\ patch_before = patch_disk
    /\ hunk_list \in SeqsUpTo(HunkPool, MaxHunks)
    /\ patch_lines = <<>>
    /\ hunk_idx = 0
    /\ applied = None
    /\ apc = "call"
    /\ ApplierOff
    /\ ParserOff
    /\ BlocksOff
    /\ SkeletonOff
    /\ SectionsOff
    /\ ResolveOff
    /\ PipelineOff
    /\ IoOff

SpecPatch == InitPatch /\ [][NextPatch]_vars

----------------------------------------------------------------------------
(* utils.create_file_skeleton                                              *)

\* str.lstrip()
LStrip(s) ==
    LET keep == {i \in 1..Len(s) : ~IsSpace(s[i])}
    IN  IF keep = {} THEN <<>> ELSE SubSeq(s, Min(keep), Len(s))

\* str.rjust(width)
RECURSIVE RJust(_, _)
RJust(s, width) == IF Len(s) >= width THEN s ELSE RJust(<<" ">> \o s, width)

\* " " * n
RECURSIVE Spaces(_)
Spaces(n) == IF n <= 0 THEN <<>> ELSE <<" ">> \o Spaces(n - 1)

\* any(keyword in s for keyword in keywords)
AnyIn(keywords, s) == \E k \in keywords : Contains(s, k)

DefinitionKeywords == { <<"c", "l", "a", "s", "s", " ">>, <<"d", "e", "f", " ">>, <<"a", "s", "y", "n", "c", " ", "d", "e", "f", " ">> }
DeclarationKeywords == { <<"v", "a", "r">>, <<"l", "e", "t">>, <<"c", "o", "n", "s", "t">>, <<":", " ", "D", "i", "c", "t">>, <<":", " ", "L", "i", "s", "t">>, <<":", " ", "S", "e", "t">> }
ImportKeywords == { <<"i", "m", "p", "o", "r", "t", " ">>, <<"f", "r", "o", "m", " ">> }
ELLIPSIS == <<".", ".", ".">>

\* the row appended for a kept line
SkeletonRow(line, current_line_num, line_num_width, with_numbers) ==
    IF ~with_numbers THEN line
    ELSE RJust(FormatInt(current_line_num), line_num_width) \o <<" ", "|">> \o line

\* (mutant) the row is appended before every kept line but the first
EllipsisRowsBeforeEach(st, line_num_width, with_numbers) ==
    IF st.last_line_num # 0
    THEN << IF ~with_numbers THEN ELLIPSIS ELSE ELLIPSIS \o Spaces(line_num_width) >>
    ELSE <<>>

\* the row appended before it when the previous kept line is not adjacent
EllipsisRows(st, line_num_width, with_numbers) ==
    IF st.last_line_num # 0 /\ st.current_line_num - st.last_line_num > 1
    THEN << IF ~with_numbers THEN ELLIPSIS ELSE ELLIPSIS \o Spaces(line_num_width) >>
    ELSE <<>>

\* the three branches keep a line the same way
KeepLine(st, line, line_num_width, with_numbers) ==
    [st EXCEPT
        !.skeleton_lines = @ \o EllipsisRows(st, line_num_width, with_numbers)
            \o <<SkeletonRow(line, st.current_line_num, line_num_width, with_numbers)>>,
        !.last_line_num = st.current_line_num]

\* (mutant) a blank line is skipped without being counted
SkipBlankUncounted(st) == st

\* if not stripped: current_line_num += 1; continue
SkipBlank(st) == [st EXCEPT !.current_line_num = @ + 1]

\* one iteration of the loop over the lines; current_indent is assigned
\* but never read and is left out
SkeletonLine(st, line, line_num_width, with_numbers) ==
    LET stripped == Strip(line)
        indent == Len(line) - Len(LStrip(line))
        kept ==
            IF AnyIn(DefinitionKeywords, stripped)
            THEN KeepLine(st, line, line_num_width, with_numbers)
            ELSE IF Contains(stripped, <<"=">>) /\ ~MatchAt(stripped, 1, <<"#">>)
            THEN IF indent = 0 /\ AnyIn(DeclarationKeywords, Head(Split(stripped, <<"=">>)))
                 THEN KeepLine(st, line, line_num_width, with_numbers)
                 ELSE st
            ELSE IF AnyIn(ImportKeywords, stripped)
            THEN KeepLine(st, line, line_num_width, with_numbers)
            ELSE st
    IN  IF stripped = <<>> THEN SkipBlank(st)
        ELSE [kept EXCEPT !.current_line_num = @ + 1]

RECURSIVE SkeletonLines(_, _, _, _)
SkeletonLines(st, ls, line_num_width, with_numbers) ==
    IF ls = <<>> THEN st
    ELSE SkeletonLines(SkeletonLine(st, Head(ls), line_num_width, with_numbers),
                       Tail(ls), line_num_width, with_numbers)

\* create_file_skeleton(content, line_numbers)
create_file_skeleton(text, with_numbers) ==
    LET ls == Split(text, <<"\n">>)
        line_num_width == Len(FormatInt(Len(ls)))
        st == SkeletonLines([skeleton_lines |-> <<>>, current_line_num |-> 1,
                             last_line_num |-> 0], ls, line_num_width, with_numbers)
    IN  JoinWith(st.skeleton_lines, <<"\n">>)

----------------------------------------------------------------------------
(* create_file_skeleton applied to a file text                             *)

MaxSrcLines == 3   \* most lines of a generated file text

SourceLines ==
    { <<"i", "m", "p", "o", "r", "t", " ", "o", "s">>, <<>>, <<"c", "l", "a", "s", "s", " ", "A", ":">>, <<" ", " ", " ", " ", "d", "e", "f", " ", "f", "(", "s", "e", "l", "f", ")", ":">>, <<" ", " ", " ", " ", "x", " ", "=", " ", "1">>,
      <<"i", "t", "e", "m", "s", ":", " ", "D", "i", "c", "t", " ", "=", " ", "{", "}">>, <<"#", " ", "c">>,
      <<"f", "r", "o", "m", " ", "m", " ", "i", "m", "p", "o", "r", "t", " ", "f", " ", " ", "#", " ", "k", "=", "1">> }

\* a file of more than nine lines, so that line numbers are padded
LongSource ==
    << <<"i", "m", "p", "o", "r", "t", " ", "o", "s">>, <<>>, <<"c", "l", "a", "s", "s", " ", "A", ":">>, <<" ", " ", " ", " ", "d", "e", "f", " ", "f", "(", "s", "e", "l", "f", ")", ":">>, <<" ", " ", " ", " ", " ", " ", " ", " ", "p", "a", "s", "s">>, <<>>,
       <<>>, <<"x", " ", "=", " ", "1">>, <<"v", "a", "r", " ", "=", " ", "1", "0">>, <<>>, <<"a", "s", "y", "n", "c", " ", "d", "e", "f", " ", "g", "(", ")", ":">>, <<" ", " ", " ", " ", "r", "e", "t", "u", "r", "n", " ", "1">>, <<>> >>

SkeletonInputs ==
    { JoinWith(ls, NL) : ls \in SeqsUpTo(SourceLines, MaxSrcLines) \cup {LongSource} }

\* skeleton = create_file_skeleton(content, line_numbers)
CreateSkeleton ==
    /\ spc = "content"
    /\ skeleton' = create_file_skeleton(source_text, line_numbers)
    /\ spc' = "skeleton"
    /\ UNCHANGED <<source_text, line_numbers, applierVars, parserVars, blockVars,
                   sectionVars, resolveVars, pipelineVars, ioVars, patchVars>>

NextSkeleton == CreateSkeleton

InitSkeleton ==
    /\ source_text \in SkeletonInputs
    /\ line_numbers \in BOOLEAN
    /\ skeleton = <<>>
    /\ spc = "content"
    /\ ApplierOff
    /\ ParserOff
    /\ BlocksOff
    /\ SectionsOff
    /\ ResolveOff
    /\ PipelineOff
    /\ IoOff
    /\ PatchOff

SpecSkeleton == InitSkeleton /\ [][NextSkeleton]_vars

----------------------------------------------------------------------------
(* ast.parse and ast.walk on the statements the model's files are made of: *)
(* one statement per line, blocks by indentation; def, async def, class,   *)
(* NAME = value, NAME: type = value, pass, return, import                  *)

IdentChars == { "a", "b", "c", "d", "e", "f", "g", "h", "i", "j", "k", "l", "m", "n", "o", "p", "q", "r", "s", "t", "u", "v", "w", "x", "y", "z", "A", "B", "C", "D", "E", "F", "G", "H", "I", "J", "K", "L", "M", "N", "O", "P", "Q", "R", "S", "T", "U", "V", "W", "X", "Y", "Z", "0", "1", "2", "3", "4", "5", "6", "7", "8", "9", "_" }

IsIdentifier(s) ==
    /\ s # <<>>
    /\ \A i \in 1..Len(s) : s[i] \in IdentChars
    /\ ~IsDigit(s[1])

EndsWith(s, suffix) == MatchAt(s, Len(s) - Len(suffix) + 1, suffix)

\* the statement on one stripped line: its kind and the name it defines
Statement(stripped) ==
    LET upto(from, stop) == SubSeq(stripped, from, Find(stripped, stop, from) - 1)
        header(kind, from) ==
            IF Find(stripped, <<"(">>, from) > 0 /\ EndsWith(stripped, <<")", ":">>)
                   /\ IsIdentifier(upto(from, <<"(">>))
            THEN [kind |-> kind, name |-> upto(from, <<"(">>)]
            ELSE [kind |-> "SyntaxError", name |-> <<>>]
        lhs == upto(1, <<" ", "=", " ">>)
    IN  IF MatchAt(stripped, 1, <<"d", "e", "f", " ">>) THEN header("FunctionDef", 5)
        ELSE IF MatchAt(stripped, 1, <<"a", "s", "y", "n", "c", " ", "d", "e", "f", " ">>) THEN header("AsyncFunctionDef", 11)
        ELSE IF MatchAt(stripped, 1, <<"c", "l", "a", "s", "s", " ">>)
        THEN IF EndsWith(stripped, <<":">>) /\ IsIdentifier(SubSeq(stripped, 7, Len(stripped) - 1))
             THEN [kind |-> "ClassDef", name |-> SubSeq(stripped, 7, Len(stripped) - 1)]
             ELSE [kind |-> "SyntaxError", name |-> <<>>]
        ELSE IF Find(stripped, <<" ", "=", " ">>, 1) > 0
        THEN IF IsIdentifier(lhs) THEN [kind |-> "Assign", name |-> lhs]
             ELSE IF Find(lhs, <<":", " ">>, 1) > 0 /\ IsIdentifier(SubSeq(lhs, 1, Find(lhs, <<":", " ">>, 1) - 1))
             THEN [kind |-> "AnnAssign", name |-> SubSeq(lhs, 1, Find(lhs, <<":", " ">>, 1) - 1)]
             ELSE [kind |-> "SyntaxError", name |-> <<>>]
        ELSE IF stripped = <<"p", "a", "s", "s">> \/ MatchAt(stripped, 1, <<"r", "e", "t", "u", "r", "n">>) \/ MatchAt(stripped, 1, <<"i", "m", "p", "o", "r", "t", " ">>)
        THEN [kind |-> "Other", name |-> <<>>]
        ELSE [kind |-> "SyntaxError", name |-> <<>>]

IsBlock(kind) == kind \in {"FunctionDef", "AsyncFunctionDef", "ClassDef"}

\* ast.parse(content): ok is FALSE when it raises SyntaxError; nodes are the
\* statement nodes with lineno, end_lineno and their depth below Module
ParseLines(ls, stmts, indents) ==
    LET code == {i \in 1..Len(ls) : stmts[i].kind \notin {"Blank", "Comment"}}
        indent(i) == indents[i]
        stmt(i) == stmts[i]
        prev(i) == Max({j \in code : j < i})
        next(i) == Min({j \in code : j > i})
        outer(i) == {j \in code : j < i /\ indent(j) < indent(i)}
        parent(i) == IF outer(i) = {} THEN 0 ELSE Max(outer(i))
        wellIndented(i) ==
            /\ IF parent(i) = 0 THEN indent(i) = 0
               ELSE IsBlock(stmt(parent(i)).kind) /\ indent(i) = indent(next(parent(i)))
            /\ {j \in code : j < i} # {} /\ IsBlock(stmt(prev(i)).kind)
                   => indent(i) > indent(prev(i))
        last == IF code = {} THEN 0 ELSE Max(code)
        ok == /\ \A i \in code : stmt(i).kind # "SyntaxError" /\ wellIndented(i)
              /\ last # 0 => ~IsBlock(stmt(last).kind)
        RECURSIVE Depth(_)
        Depth(i) == IF parent(i) = 0 THEN 1 ELSE 1 + Depth(parent(i))
        closing(i) == {j \in code : j > i /\ indent(j) <= indent(i)}
        body_end(i) == Max({j \in code : j > i /\ (closing(i) = {} \/ j < Min(closing(i)))})
        node(i) == [kind |-> stmt(i).kind, name |-> stmt(i).name, lineno |-> i,
                    end_lineno |-> IF IsBlock(stmt(i).kind) THEN body_end(i) ELSE i,
                    depth |-> Depth(i)]
    IN  IF ok THEN [ok |-> TRUE, nodes |-> {node(i) : i \in code}]
        ELSE [ok |-> FALSE, nodes |-> {}]

\* the statement of a line, with blank lines and comment lines told apart
LineStatement(line) ==
    IF Strip(line) = <<>> THEN [kind |-> "Blank", name |-> <<>>]
    ELSE IF MatchAt(Strip(line), 1, <<"#">>) THEN [kind |-> "Comment", name |-> <<>>]
    ELSE Statement(Strip(line))

ParseModule(text) ==
    The({ The({ ParseLines(ls, stmts, indents) :
                stmts \in {[i \in 1..Len(ls) |-> LineStatement(ls[i])] \o <<>>},
                indents \in {[i \in 1..Len(ls) |-> Len(ls[i]) - Len(LStrip(ls[i]))] \o <<>>} }) :
          ls \in {Split(text, <<"\n">>)} })

\* ast.walk(tree) is breadth first: the nodes by depth, then by line
RECURSIVE WalkFrom(_)
WalkFrom(nodes) ==
    IF nodes = {} THEN <<>>
    ELSE LET first == CHOOSE n \in nodes : \A o \in nodes :
                          n.depth < o.depth \/ (n.depth = o.depth /\ n.lineno <= o.lineno)
         IN  <<first>> \o WalkFrom(nodes \ {first})

\* (mutant) the nodes in the order of their lines
WalkInTextOrder(tree) ==
    [i \in 1..Cardinality(tree.nodes) |->
        CHOOSE n \in tree.nodes : Cardinality({o \in tree.nodes : o.lineno < n.lineno}) = i - 1] \o <<>>

Walk(tree) == WalkFrom(tree.nodes)

----------------------------------------------------------------------------
(* utils.extract_relevant_sections                                         *)

\* c * n
RECURSIVE Repeat(_, _)
Repeat(c, n) == IF n <= 0 THEN <<>> ELSE <<c>> \o Repeat(c, n - 1)

Element(type, name) == [type |-> type, name |-> name]

SectionLabel ==
    [function |-> <<"F", "u", "n", "c", "t", "i", "o", "n">>, class |-> <<"C", "l", "a", "s", "s">>, variable |-> <<"V", "a", "r", "i", "a", "b", "l", "e">>]

\* (mutant) the span starts at the 1-based line number
NodeStartOneBased(node) == node.lineno

\* start = node.lineno - 1
NodeStart(node) == node.lineno - 1

\* the rows one match appends to section_content: header, rule, the lines
\* of the span widened by context_window and clamped, rule
SectionRows(ls, element, node, window) ==
    LET start == Max({0, NodeStart(node) - window})
        end == Min({Len(ls), node.end_lineno + window})
    IN  << <<"=", "=", "=", " ">> \o SectionLabel[element.type] \o <<":", " ">> \o element.name \o <<" ", "=", "=", "=">>,
           Repeat("-", 40) >>
            \o Slice(ls, start, end) \o << Repeat("-", 40) >>

\* does the node define the element
Defines(node, element) ==
    /\ node.name = element.name
    /\ CASE element.type = "function" -> node.kind \in {"FunctionDef", "AsyncFunctionDef"}
         [] element.type = "class" -> node.kind = "ClassDef"
         [] element.type = "variable" -> node.kind \in {"Assign", "AnnAssign"}
         [] OTHER -> FALSE

\* the walk for one element: section_content is not reset between matches;
\* a matching function, class or annotated assignment ends the walk, a
\* matching plain assignment only ends the loop over its targets
RECURSIVE ElementWalk(_, _, _, _, _)
ElementWalk(walk, ls, element, window, section_content) ==
    IF walk = <<>> THEN <<>>
    ELSE IF ~Defines(Head(walk), element)
    THEN ElementWalk(Tail(walk), ls, element, window, section_content)
    ELSE LET rows == section_content \o SectionRows(ls, element, Head(walk), window)
         IN  <<JoinWith(rows, <<"\n">>)>>
                 \o IF Head(walk).kind = "Assign"
                    THEN ElementWalk(Tail(walk), ls, element, window, rows)
                    ELSE <<>>

RECURSIVE ElementsSections(_, _, _, _)
ElementsSections(walk, ls, elems, window) ==
    IF elems = <<>> THEN <<>>
    ELSE ElementWalk(walk, ls, Head(elems), window, <<>>)
             \o ElementsSections(walk, ls, Tail(elems), window)

\* extract_relevant_sections(file_path, repo_path, elements, context_window)
\* on the files under repo_path: the list of sections, or raised when
\* ast.parse raises SyntaxError
extract_relevant_sections(files, path, elems, window) ==
    IF path \notin DOMAIN files THEN [raised |-> FALSE, sections |-> <<>>]
    ELSE LET Sections(text, tree) ==
                 IF ~tree.ok THEN [raised |-> TRUE, sections |-> <<>>]
                 ELSE The({ [raised |-> FALSE,
                             sections |-> ElementsSections(walk, ls, elems, window)] :
                            walk \in {Walk(tree)}, ls \in {Split(text, <<"\n">>)} })
         IN  The({ The({ Sections(text, tree) : tree \in {ParseModule(text)} }) :
                   text \in {UniversalNewlines(files[path])} })

----------------------------------------------------------------------------
(* extract_relevant_sections applied to the files of a project             *)

MaxWindow == 2   \* largest context_window

C_PY == <<"c", ".", "p", "y">>
D_PY == <<"d", ".", "p", "y">>
E_PY == <<"e", ".", "p", "y">>

\* a.py: foo spans lines 10 to 12 of 14, the text ends with a newline
SourceA == <<"i", "m", "p", "o", "r", "t", " ", "o", "s", "\n", "\n", "i",
    "t", "e", "m", "s", ":", " ", "D", "i", "c", "t", " ", "=", " ", "{",
    "}", "\n", "x", " ", "=", " ", "1", "\n", "c", "l", "a", "s", "s", " ",
    "A", ":", "\n", " ", " ", " ", " ", "d", "e", "f", " ", "b", "a", "r",
    "(", "s", "e", "l", "f", ")", ":", "\n", " ", " ", " ", " ", " ", " ",
    " ", " ", "p", "a", "s", "s", "\n", "\n", "#", " ", "t", "o", "t", "a",
    "l", "\n", "d", "e", "f", " ", "f", "o", "o", "(", ")", ":", "\n", " ",
    " ", " ", " ", "y", " ", "=", " ", "2", "\n", " ", " ", " ", " ", "r",
    "e", "t", "u", "r", "n", " ", "y", "\n", "\n", "x", " ", "=", " ", "3",
    "\n">>
\* b.py: two lines, no newline at the end
SourceB == <<"d", "e", "f", " ", "f", "o", "o", "(", ")", ":", "\n", " ",
    " ", " ", " ", "r", "e", "t", "u", "r", "n", " ", "1">>
\* c.py: not Python
SourceC == <<"d", "e", "f", " ", "f", "o", "o", "(", ":", "\n", " ", " ",
    " ", " ", "p", "a", "s", "s", "\n">>

\* e.py: foo is a method of A at line 2 and a function at line 4
SourceE == <<"c", "l", "a", "s", "s", " ", "A", ":", "\n", " ", " ", " ", " ", "d", "e", "f", " ", "f", "o", "o", "(", "s", "e", "l", "f", ")", ":", "\n", " ", " ", " ", " ", " ", " ", " ", " ", "p", "a", "s", "s", "\n", "d", "e", "f", " ", "f", "o", "o", "(", ")", ":", "\n", " ", " ", " ", " ", "p", "a", "s", "s", "\n">>

\* the files under repo_path; d.py does not exist
Project == (A_PY :> SourceA) @@ (B_PY :> SourceB) @@ (C_PY :> SourceC) @@ (E_PY :> SourceE)
FilePaths == {A_PY, B_PY, C_PY, D_PY, E_PY}

Names == { <<"f", "o", "o">>, <<"b", "a", "r">>, <<"A">>, <<"i", "t", "e",
    "m", "s">>, <<"x">>, <<"y">>, <<"z", "z">> }
ElementTypes == {"function", "class", "variable"}
Elements == { Element(type, name) : type \in ElementTypes, name \in Names }

\* sections = extract_relevant_sections(file_path, repo_path, elements, context_window)
ExtractSections ==
    /\ rpc = "call"
    /\ sections' = Some(extract_relevant_sections(project, file_path, elements, context_window))
    /\ rpc' = "sections"
    /\ UNCHANGED <<project, context_window, file_path, elements,
                   applierVars, parserVars, blockVars, skeletonVars, resolveVars,
                   pipelineVars, ioVars, patchVars>>

NextSections == ExtractSections

InitSections ==
    /\ project = Project
    /\ context_window \in 0..MaxWindow
    /\ file_path \in FilePaths
    /\ \E e \in Elements : elements = <<e>>
    /\ sections = None
    /\ rpc = "call"
    /\ ApplierOff
    /\ ParserOff
    /\ BlocksOff
    /\ SkeletonOff
    /\ ResolveOff
    /\ PipelineOff
    /\ IoOff
    /\ PatchOff

SpecSections == InitSections /\ [][NextSections]_vars

----------------------------------------------------------------------------
(* utils.read_file_content and bug_localization.locate_specific_lines      *)

\* read_file_content(path) with line_no left at its default True: every
\* line prefixed by its right-aligned number and a bar; "" when open fails
read_file_content(files, path) ==
    IF path \notin DOMAIN files THEN <<>>
    ELSE LET ls == readlines(files[path])
             padding == Len(FormatInt(Len(ls)))
         IN  Join([i \in 1..Len(ls) |-> RJust(FormatInt(i), padding) \o <<"|">> \o ls[i]])

\* int(s): Some(n), or None where int raises ValueError
IntOf(s) ==
    LET t == Strip(s)
        signed == t # <<>> /\ t[1] \in {"+", "-"}
        digits == IF signed THEN Tail(t) ELSE t
    IN  IF digits = <<>> \/ \E i \in 1..Len(digits) : ~IsDigit(digits[i]) THEN None
        ELSE IF signed /\ t[1] = "-" THEN Some(0 - ParseInt(digits))
        ELSE Some(ParseInt(digits))

\* a dict in insertion order: a sequence of [file, value] entries
Lookup(dict, key) == (CHOOSE i \in 1..Len(dict) : dict[i].file = key)
InDict(dict, key) == \E i \in 1..Len(dict) : dict[i].file = key

Location(type, name, start, end, text) ==
    [type |-> type, name |-> name, start |-> start, end |-> end, content |-> text]

\* edit_locations[current_file].append(location)
AppendLocation(edit, file, location) ==
    [i \in 1..Len(edit) |->
        IF edit[i].file = file
        THEN [edit[i] EXCEPT !.locations = Append(@, location)] ELSE edit[i]]

\* if current_file not in edit_locations: edit_locations[current_file] = []
EntryForFile(edit, file) ==
    IF \E i \in 1..Len(edit) : edit[i].file = file THEN edit
    ELSE Append(edit, [file |-> file, locations |-> <<>>])

\* an exception of class kind reaches the except clause around the loop:
\* the lines that follow are not looked at
Caught(st, kind) == [st EXCEPT !.stopped = TRUE, !.caught = kind]

\* the branch for 'function: <name>'
FunctionDescriptor(st, files, by_file, window, name) ==
    IF st.current_file = None \/ ~InDict(by_file, st.current_file[1]) THEN st
    ELSE LET elems == by_file[Lookup(by_file, st.current_file[1])].elements
             matching_elements ==
                 SelectSeq(elems, LAMBDA e : e.type = "function" /\ e.name = Strip(name))
             Resolved(found) ==
                 IF found.raised THEN Caught(st, "SyntaxError")
                 ELSE IF found.sections = <<>> THEN st
                 ELSE [st EXCEPT !.edit_locations =
                          AppendLocation(@, st.current_file[1],
                              Location("function", Strip(name), None, None,
                                       found.sections[1]))]
         IN  IF matching_elements = <<>> THEN st
             ELSE CHOOSE next \in
                      { Resolved(found) : found \in
                          {extract_relevant_sections(files, st.current_file[1],
                                                     <<matching_elements[1]>>, window)} } : TRUE

\* a negative slice bound counts from the end of the list
FromEnd(xs, hi) == IF hi < 0 THEN Max({0, hi + Len(xs)}) ELSE hi

\* the branch for 'line: <n>'
LineDescriptor(st, files, window, line) ==
    LET line_num == IntOf(Split(line, <<"l", "i", "n", "e", ":", " ">>)[2])
        Resolved(text) ==
            LET rows == Split(text, <<"\n">>)
                start_line == Max({1, line_num[1] - window})
                end_line == Min({Len(rows), line_num[1] + window})
            IN  IF text = <<>> THEN st
                ELSE [st EXCEPT !.edit_locations =
                         AppendLocation(@, st.current_file[1],
                             Location("line", None, Some(start_line), Some(end_line),
                                 JoinWith(Slice(rows, start_line - 1,
                                                FromEnd(rows, end_line)), <<"\n">>)))]
    IN  IF line_num = None THEN st
        ELSE IF st.current_file = None THEN Caught(st, "TypeError")
        ELSE CHOOSE next \in
                 { Resolved(text) : text \in
                     {read_file_content(files, st.current_file[1])} } : TRUE

\* one iteration of the loop over the lines of the response
DescriptorLine(st, files, by_file, window, raw) ==
    LET line == Strip(raw)
        parts == Split(line, <<":", " ">>)
    IN  IF st.stopped \/ line = <<>> THEN st
        ELSE IF ~Contains(line, <<":">>)
        THEN [st EXCEPT !.current_file = Some(line),
                        !.edit_locations = EntryForFile(@, line)]
        ELSE IF Len(parts) < 2 THEN Caught(st, "ValueError")
        ELSE IF parts[1] = <<"f", "u", "n", "c", "t", "i", "o", "n">>
        THEN FunctionDescriptor(st, files, by_file, window,
                                SubSeq(line, Len(parts[1]) + 3, Len(line)))
        ELSE IF MatchAt(line, 1, <<"l", "i", "n", "e", ":", " ">>)
        THEN LineDescriptor(st, files, window, line)
        ELSE st

RECURSIVE DescriptorLines(_, _, _, _, _)
DescriptorLines(st, files, by_file, window, ls) ==
    IF ls = <<>> THEN st
    ELSE CHOOSE last \in
             { DescriptorLines(next, files, by_file, window, Tail(ls)) : next \in
                 {DescriptorLine(st, files, by_file, window, Head(ls))} } : TRUE

\* (mutant) the first loop lets no exception out
CollectSwallows(files, by_file, window) == FALSE

\* the first loop: extract_relevant_sections for every file of
\* code_elements, outside any try
RECURSIVE CollectRaises(_, _, _)
CollectRaises(files, by_file, window) ==
    /\ by_file # <<>>
    /\ \/ extract_relevant_sections(files, Head(by_file).file,
                                    Head(by_file).elements, window).raised
       \/ CollectRaises(files, Tail(by_file), window)

NoLocations == <<>>

\* locate_specific_lines(llm, problem_statement, repo_path, code_elements,
\* context_window, output_dir) with text the response of llm.call_llm:
\* the dict it returns, or raised when SyntaxError leaves the function;
\* caught is the class of the exception its except clause logged
locate_specific_lines(files, by_file, window, text) ==
    IF CollectRaises(files, by_file, window)
    THEN [raised |-> TRUE, edit_locations |-> NoLocations, caught |-> "none"]
    ELSE IF ~Contains(text, TICKS)
    THEN [raised |-> FALSE, edit_locations |-> NoLocations, caught |-> "none"]
    ELSE LET body == Strip(Split(text, TICKS)[2])
             Loop(ls) == DescriptorLines([edit_locations |-> NoLocations,
                                          current_file |-> None,
                                          stopped |-> FALSE, caught |-> "none"],
                                         files, by_file, window, ls)
         IN  CHOOSE result \in
                 { [raised |-> FALSE, edit_locations |-> st.edit_locations,
                    caught |-> st.caught] :
                   st \in {Loop(ls) : ls \in {Split(body, <<"\n">>)}} } : TRUE

----------------------------------------------------------------------------
(* bug_repair.generate_fixes, lines 24 to 48: the sections it collects     *)

FileContent(file_name, file_content) ==
    [file_name |-> file_name, file_content |-> file_content]

\* the loop over the locations of one file
RECURSIVE LocationSections(_, _, _, _, _)
LocationSections(acc, files, path, locations, window) ==
    IF locations = <<>> \/ acc.raised THEN acc
    ELSE LET location == Head(locations)
             Extended(extracted) ==
                 IF extracted.raised THEN [acc EXCEPT !.raised = TRUE]
                 ELSE [acc EXCEPT !.sections = @ \o extracted.sections]
             step == IF location.type = "line"
                     THEN [acc EXCEPT !.sections = Append(@, location.content)]
                     ELSE IF location.name = None THEN acc
                     ELSE CHOOSE next \in
                              { Extended(extracted) : extracted \in
                                  {extract_relevant_sections(files, path,
                                       <<Element(location.type, location.name)>>,
                                       window)} } : TRUE
         IN  CHOOSE last \in
                 { LocationSections(next, files, path, Tail(locations), window) :
                   next \in {step} } : TRUE

\* the loop over edit_locations.items(), outside any try
RECURSIVE CollectSections(_, _, _, _)
CollectSections(acc, files, edit, window) ==
    IF edit = <<>> \/ acc.raised THEN acc
    ELSE LET Collected(got) ==
                 IF got.raised THEN [acc EXCEPT !.raised = TRUE]
                 ELSE IF got.sections = <<>> THEN acc
                 ELSE [acc EXCEPT !.all_file_contents =
                          Append(@, FileContent(Head(edit).file,
                                     JoinWith(got.sections, <<"\n", "\n">>)))]
         IN  CHOOSE last \in
                 { CollectSections(Collected(got), files, Tail(edit), window) :
                   got \in {LocationSections([raised |-> FALSE, sections |-> <<>>],
                                files, Head(edit).file, Head(edit).locations,
                                window)} } : TRUE

\* all_file_contents of generate_fixes, or raised when SyntaxError leaves it
RepairContents(files, edit, window) ==
    CollectSections([raised |-> FALSE, all_file_contents |-> <<>>], files, edit, window)

----------------------------------------------------------------------------
(* bug_localization.locate_buggy_files and locate_code_elements            *)

\* the list locate_buggy_files makes of the response of llm.call_llm
locate_buggy_files(text) ==
    LET pieces == IF Contains(text, TICKS)
                  THEN Split(Strip(Split(text, TICKS)[2]), <<"\n">>)
                  ELSE LET rows == Split(text, <<"\n">>)
                       IN  [i \in 1..Len(rows) |-> Strip(rows[i])]
        kept == SelectSeq(pieces, LAMBDA f : Strip(f) # <<>> /\ ~MatchAt(f, 1, TICKS))
    IN  [i \in 1..Len(kept) |-> Strip(kept[i])]

\* elements[current_file] = []
ResetElements(dict, file) ==
    IF InDict(dict, file)
    THEN [i \in 1..Len(dict) |->
             IF dict[i].file = file THEN [dict[i] EXCEPT !.elements = <<>>] ELSE dict[i]]
    ELSE Append(dict, [file |-> file, elements |-> <<>>])

\* elements[current_file].append(element)
AppendElement(dict, file, element) ==
    [i \in 1..Len(dict) |->
        IF dict[i].file = file
        THEN [dict[i] EXCEPT !.elements = Append(@, element)] ELSE dict[i]]

\* the element type spelled by the characters before the colon
TypeNamed(chars) ==
    CASE chars = <<"c", "l", "a", "s", "s">> -> "class"
      [] chars = <<"f", "u", "n", "c", "t", "i", "o", "n">> -> "function"
      [] chars = <<"v", "a", "r", "i", "a", "b", "l", "e">> -> "variable"

\* one iteration of the loop over the lines of the response; a descriptor
\* above the first file line raises KeyError, which ends the loop
ElementLine(st, raw) ==
    LET line == Strip(raw)
        parts == Split(line, <<":", " ">>)
        name == SubSeq(line, Len(parts[1]) + 3, Len(line))
    IN  IF st.stopped \/ line = <<>> THEN st
        ELSE IF ~Contains(line, <<":">>)
        THEN [st EXCEPT !.current_file = Some(line),
                        !.elements = ResetElements(@, line)]
        ELSE IF Len(parts) < 2 THEN st
        ELSE IF parts[1] \notin {<<"c", "l", "a", "s", "s">>,
                                 <<"f", "u", "n", "c", "t", "i", "o", "n">>,
                                 <<"v", "a", "r", "i", "a", "b", "l", "e">>}
        THEN st
        ELSE IF st.current_file = None THEN [st EXCEPT !.stopped = TRUE]
        ELSE [st EXCEPT !.elements =
                 AppendElement(@, st.current_file[1],
                     Element(TypeNamed(parts[1]), Strip(name)))]

RECURSIVE ElementLines(_, _)
ElementLines(st, ls) ==
    IF ls = <<>> THEN st
    ELSE The({ ElementLines(next, Tail(ls)) : next \in {ElementLine(st, Head(ls))} })

\* locate_code_elements(llm, problem_statement, repo_path, buggy_files,
\* output_dir) with text the response of llm.call_llm: the dict it returns
locate_code_elements(files, buggy, text) ==
    IF \A i \in 1..Len(buggy) :
           buggy[i] \notin DOMAIN files \/ UniversalNewlines(files[buggy[i]]) = <<>>
    THEN <<>>
    ELSE IF ~Contains(text, TICKS) THEN <<>>
    ELSE The({ ElementLines([elements |-> <<>>, current_file |-> None,
                             stopped |-> FALSE], ls).elements :
               ls \in {Split(Strip(Split(text, TICKS)[2]), <<"\n">>)} })

----------------------------------------------------------------------------
(* locate_specific_lines and the collecting loop of generate_fixes, called *)
(* on the files of Project                                                 *)

MaxDescriptors == 3   \* most lines between the fences of the line-level response

FOO == <<"f", "o", "o">>

\* dicts locate_code_elements can return: the oracle names the files
CodeElements == {
    << [file |-> A_PY, elements |-> <<Element("function", FOO)>>],
       [file |-> B_PY, elements |-> <<Element("function", FOO)>>] >>,
    << [file |-> A_PY, elements |-> <<Element("function", FOO)>>],
       [file |-> C_PY, elements |-> <<Element("function", FOO)>>] >>,
    << [file |-> D_PY, elements |-> <<Element("function", FOO)>>],
       [file |-> B_PY, elements |-> <<Element("function", FOO)>>] >> }

\* the lines the oracle writes between the fences: file names, descriptors
\* that resolve, and descriptors that do not
FunctionFoo == <<"f", "u", "n", "c", "t", "i", "o", "n", ":", " ", "f", "o", "o">>
FunctionZz == <<"f", "u", "n", "c", "t", "i", "o", "n", ":", " ", "z", "z">>
FunctionNoSpace == <<"f", "u", "n", "c", "t", "i", "o", "n", ":", "f", "o", "o">>
LineOne == <<"l", "i", "n", "e", ":", " ", "1">>
LineAbc == <<"l", "i", "n", "e", ":", " ", "a", "b", "c">>
ClassA == <<"c", "l", "a", "s", "s", ":", " ", "A">>
DescriptorPool == {A_PY, B_PY, D_PY, FunctionFoo, FunctionZz, FunctionNoSpace,
                   LineOne, LineAbc, ClassA}

\* the response: a fenced block of descriptor lines
Fenced(ls) == TICKS \o <<"\n">> \o JoinWith(ls, <<"\n">>) \o <<"\n">> \o TICKS
DescriptorLists == SeqsUpTo(DescriptorPool, MaxDescriptors)

\* dicts handed to generate_fixes by a caller other than find_patch
FooOfC == Location("function", FOO, None, None, <<"d", "e", "f", " ", "f", "o", "o", "(", ":">>)
FooOfA == Location("function", FOO, None, None, <<"d", "e", "f", " ", "f", "o", "o", "(", ")", ":">>)
LineOfA == Location("line", None, Some(1), Some(1), <<"1", "|", "i", "m", "p", "o", "r", "t", " ", "o", "s">>)
HandedLocations == {
    << [file |-> C_PY, locations |-> <<FooOfC>>] >>,
    << [file |-> A_PY, locations |-> <<LineOfA>>],
       [file |-> C_PY, locations |-> <<FooOfC>>] >>,
    << [file |-> A_PY, locations |-> <<FooOfA, LineOfA>>],
       [file |-> B_PY, locations |-> <<>>] >> }

\* edit_locations = locate_specific_lines(llm, ..., code_elements, context_window, ...)
LocateSpecificLines ==
    /\ lpc = "locate"
    /\ located' = Some(locate_specific_lines(project, code_elements, context_window,
                                             line_response))
    /\ edit_locations' = located'[1].edit_locations
    /\ lpc' = IF located'[1].raised THEN "raised" ELSE "repair"
    /\ UNCHANGED <<code_elements, line_response, contents, project, context_window,
                   file_path, elements, sections, rpc,
                   applierVars, parserVars, blockVars, skeletonVars, pipelineVars, ioVars, patchVars>>

\* generate_fixes(llm, ..., edit_locations, context_window, ...) up to its prompt
CollectContents ==
    /\ lpc = "repair"
    /\ contents' = Some(RepairContents(project, edit_locations, context_window))
    /\ lpc' = IF contents'[1].raised THEN "raised" ELSE "collected"
    /\ UNCHANGED <<code_elements, line_response, edit_locations, located, project,
                   context_window, file_path, elements, sections, rpc,
                   applierVars, parserVars, blockVars, skeletonVars, pipelineVars, ioVars, patchVars>>

NextResolve == LocateSpecificLines \/ CollectContents

InitResolve ==
    /\ project = Project
    /\ context_window \in {0, MaxWindow}
    /\ file_path = <<>>
    /\ elements = <<>>
    /\ sections = None
    /\ rpc = "off"
    /\ \/ /\ lpc = "locate"
          /\ code_elements \in CodeElements
          \* with c.py among the files the call ends before the response is read
          /\ \E ls \in DescriptorLists :
                 /\ (\E i \in 1..Len(code_elements) : code_elements[i].file = C_PY)
                        => Len(ls) <= 1
                 /\ line_response = Fenced(ls)
          /\ edit_locations = <<>>
       \/ /\ lpc = "repair"
          /\ code_elements = <<>>
          /\ line_response = <<>>
          /\ edit_locations \in HandedLocations
    /\ located = None
    /\ contents = None
    /\ ApplierOff
    /\ ParserOff
    /\ BlocksOff
    /\ SkeletonOff
    /\ PipelineOff
    /\ IoOff
    /\ PatchOff

SpecResolve == InitResolve /\ [][NextResolve]_vars

----------------------------------------------------------------------------
(* run.find_patch: the stages on the files of Project, with the oracle's   *)
(* four responses fixed beforehand                                         *)

top_n == 3

\* validate_fixes on the copied tree: the files after every fix of the list
\* was tried in order; a fix whose file open() does not find is skipped
RECURSIVE ValidatedFiles(_, _)
ValidatedFiles(files, batch) ==
    IF batch = <<>> THEN files
    ELSE LET fix == Head(batch)
             tried == IF fix.file \in DOMAIN files
                      THEN [files EXCEPT ![fix.file] = ApplyFix(files[fix.file], fix).raw]
                      ELSE files
         IN  The({ ValidatedFiles(after, Tail(batch)) : after \in {tried} })

\* git diff: the files of the copy that differ from the commit, with their text
ConsolidatedDiff(before, after) ==
    LET changed == {f \in DOMAIN after : f \notin DOMAIN before \/ after[f] # before[f]}
    IN  [f \in changed |-> after[f]]

\* the oracle's answers
FileResponses ==
    { Fenced(<<A_PY, B_PY>>), JoinWith(<<B_PY, C_PY, A_PY>>, <<"\n">>), <<>>,
      Fenced(<<D_PY>>) }
ElementResponses ==
    { Fenced(<<A_PY, FunctionFoo, B_PY, FunctionFoo>>),
      Fenced(<<A_PY, FunctionFoo, C_PY, FunctionFoo>>),
      Fenced(<<FunctionFoo, A_PY>>),
      Prose }
LineResponses ==
    { Fenced(<<A_PY, FunctionFoo, B_PY, FunctionFoo>>),
      Fenced(<<A_PY, FunctionNoSpace, B_PY, FunctionFoo>>),
      Fenced(<<B_PY, LineOne>>),
      Prose }
EditOfA == GoodSegment(A_PY, SEARCH_MARK, <<" ", " ", " ", " ", "y", " ", "=", " ", "2">>, <<" ", " ", " ", " ", "y", " ", "=", " ", "5">>)
EditOfB == GoodSegment(B_PY, SEARCH_MARK, <<" ", " ", " ", " ", "r", "e", "t", "u", "r", "n", " ", "1">>, <<" ", " ", " ", " ", "r", "e", "t", "u", "r", "n", " ", "2">>)
EditUnmatched == GoodSegment(A_PY, SEARCH_MARK, <<" ", " ", " ", " ", "y", " ", "=", " ", "7">>, <<" ", " ", " ", " ", "y", " ", "=", " ", "8">>)
RepairResponses ==
    { SuggestionText(<<EditOfA, EditOfB>>), SuggestionText(<<EditUnmatched, EditOfB>>),
      Prose }

\* buggy_files = locate_buggy_files(...); if not buggy_files: return None
LocateBuggyFiles ==
    /\ lpc = "files"
    /\ buggy_files' = locate_buggy_files(file_response)
    /\ lpc' = IF buggy_files' = <<>> THEN "returned" ELSE "elements"
    /\ UNCHANGED <<file_response, element_response, returned, code_elements,
                   line_response, edit_locations, located, contents,
                   applierVars, parserVars, blockVars, skeletonVars, sectionVars, ioVars, patchVars>>

\* code_elements = locate_code_elements(..., buggy_files[:top_n], ...);
\* if not code_elements: return None
LocateCodeElements ==
    /\ lpc = "elements"
    /\ code_elements' = locate_code_elements(project, Slice(buggy_files, 0, top_n),
                                             element_response)
    /\ lpc' = IF code_elements' = <<>> THEN "returned" ELSE "locate"
    /\ UNCHANGED <<file_response, element_response, buggy_files, returned,
                   line_response, edit_locations, located, contents,
                   applierVars, parserVars, blockVars, skeletonVars, sectionVars, ioVars, patchVars>>

\* fixes = generate_fixes(llm, ..., edit_locations, context_window, ...):
\* SyntaxError leaves it while it collects; with nothing collected the
\* oracle is not asked and the list is empty
GenerateFixes ==
    /\ lpc = "repair"
    /\ contents' = Some(RepairContents(project, edit_locations, context_window))
    /\ parsed' = IF contents'[1].raised \/ contents'[1].all_file_contents = <<>>
                 THEN <<>> ELSE generate_fixes(response)
    /\ lpc' = IF contents'[1].raised THEN "raised" ELSE "fixes"
    /\ UNCHANGED <<response, origin, ppc, code_elements, line_response, edit_locations,
                   located, pipelineVars,
                   applierVars, blockVars, skeletonVars, sectionVars, ioVars, patchVars>>

\* tests = generate_tests(...): a dict validate_fixes does not read
GenerateTests ==
    /\ lpc = "fixes"
    /\ lpc' = "tests"
    /\ UNCHANGED <<code_elements, line_response, edit_locations, located, contents,
                   pipelineVars,
                   applierVars, parserVars, blockVars, skeletonVars, sectionVars, ioVars, patchVars>>

\* validation_results, consolidated_diff = validate_fixes(...);
\* return consolidated_diff
ValidateFixes ==
    /\ lpc = "tests"
    /\ returned' = Some(ConsolidatedDiff(project, ValidatedFiles(project, parsed)))
    /\ lpc' = "returned"
    /\ UNCHANGED <<file_response, element_response, buggy_files, code_elements,
                   line_response, edit_locations, located, contents,
                   applierVars, parserVars, blockVars, skeletonVars, sectionVars, ioVars, patchVars>>

NextPipeline ==
    \/ LocateBuggyFiles
    \/ LocateCodeElements
    \/ LocateSpecificLines
    \/ GenerateFixes
    \/ GenerateTests
    \/ ValidateFixes

InitPipeline ==
    /\ project = Project
    /\ context_window = 0
    /\ file_path = <<>>
    /\ elements = <<>>
    /\ sections = None
    /\ rpc = "off"
    /\ file_response \in FileResponses
    /\ element_response \in ElementResponses
    /\ line_response \in LineResponses
    /\ response \in RepairResponses
    /\ parsed = <<>>
    /\ origin = None
    /\ ppc = "off"
    /\ buggy_files = <<>>
    /\ code_elements = <<>>
    /\ edit_locations = <<>>
    /\ located = None
    /\ contents = None
    /\ returned = None
    /\ lpc = "files"
    /\ ApplierOff
    /\ BlocksOff
    /\ SkeletonOff
    /\ IoOff
    /\ PatchOff

SpecPipeline == InitPipeline /\ [][NextPipeline]_vars

----------------------------------------------------------------------------
(* Properties of the patch applier                                         *)

\* the line hint of an operation: the key validate_fixes reads, else the
\* hint the parser recorded
Hint(fix) == IF fix.line_number # None THEN fix.line_number ELSE fix.start_line

SameOp(a, b) == [a EXCEPT !.score = 0] = [b EXCEPT !.score = 0]

\* the text at the hinted lines, stripped, is the operation's oldText
MatchesAtHint(ls, fix) ==
    /\ Hint(fix) # None
    /\ LET k == Hint(fix)[1]
           n == SearchLineCount(fix)
       IN  /\ k >= 1 /\ n >= 1 /\ k - 1 + n <= Len(ls)
           /\ Strip(Join(Slice(ls, k - 1, k - 1 + n))) = search_content(fix)

\* neither the hinted window nor the whole file holds the operation's oldText
NotFoundByEither(ls, content, fix) ==
    /\ Hint(fix) = None \/ HintedIndex(ls, search_content(fix), Hint(fix)[1]) = -1
    /\ ~Contains(content, search_content(fix))

Occurrences(s, pat) == Cardinality({p \in 1..Len(s) : MatchAt(s, p, pat)})

\* after is before with one occurrence of old replaced by new
ReplacesOneSpan(before, after, old, new) ==
    \E p \in 1..(Len(before) + 1) :
        /\ MatchAt(before, p, old)
        /\ after = SubSeq(before, 1, p - 1) \o new
                       \o SubSeq(before, p + Len(old), Len(before))

\* the files after the first k fixes of a batch, each applied to the result
\* of the one before it
RECURSIVE ApplyAll(_, _, _)
ApplyAll(files, batch, k) ==
    IF k = 0 THEN files
    ELSE LET prev == ApplyAll(files, batch, k - 1)
             fix == batch[k]
         IN  IF fix.file \in DOMAIN prev
             THEN [prev EXCEPT ![fix.file] = ApplyFix(prev[fix.file], fix).raw]
             ELSE prev

\* a MatchWrite step of run r
Iteration(r) == pc[r] = "opened" /\ pc'[r] = "loop"
ScoreAfter(r) == fixes'[r][idx[r] + 1].score
FileBefore(r) == copy[r][CurrentFix(r).file]
FileAfter(r) == copy'[r][CurrentFix(r).file]

\* C1: an operation whose oldText matches the file at its lineHint succeeds
\* the first time (score 1); applied again right after, it is not found
\* (score 0) and the file stays what the first application made it.
C1_NeverAppliedTwice ==
    \A r \in Runs :
        (/\ idx[r] >= 2
         /\ SameOp(fixes[r][1], fixes[r][2])
         /\ fixes[r][1].file \in DOMAIN repo
         /\ MatchesAtHint(readlines(repo[fixes[r][1].file]), fixes[r][1]))
        => /\ fixes[r][1].score = 1
           /\ fixes[r][2].score = 0
           /\ idx[r] = 2 =>
                copy[r][fixes[r][1].file]
                    = ApplyFix(repo[fixes[r][1].file], fixes[r][1]).raw

\* C2: when neither the hinted window search nor the whole-file search finds
\* oldText, the operation scores 0 and the file's characters on disk, line
\* endings included, are the same after the operation as before it.
C2_NotFoundLeavesFile ==
    [][\A r \in Runs :
          (Iteration(r) /\ NotFoundByEither(lines[r], current_content[r], CurrentFix(r)))
          => (ScoreAfter(r) = 0 /\ FileAfter(r) = FileBefore(r))]_vars

\* C3: a successful operation replaces exactly one occurrence of oldText by
\* newText and leaves every character outside that span as it was.
C3_OnlyMatchedSpanChanges ==
    [][\A r \in Runs :
          (Iteration(r) /\ ScoreAfter(r) = 1)
          => ReplacesOneSpan(current_content[r], FileAfter(r),
                             search_content(CurrentFix(r)),
                             replace_content(CurrentFix(r)))]_vars

\* C4: an operation with a line hint whose oldText is not in the hinted
\* window but occurs exactly once in the file is applied by the whole-file
\* fallback.
C4_FallsBackToWholeFile ==
    [][\A r \in Runs :
          (/\ Iteration(r)
           /\ Hint(CurrentFix(r)) # None
           /\ HintedIndex(lines[r], search_content(CurrentFix(r)),
                          Hint(CurrentFix(r))[1]) = -1
           /\ Occurrences(current_content[r], search_content(CurrentFix(r))) = 1)
          => /\ ScoreAfter(r) = 1
             /\ FileAfter(r) = Replace(current_content[r],
                                       search_content(CurrentFix(r)),
                                       replace_content(CurrentFix(r)))]_vars

\* a hinted single-line operation whose oldText is line k, stripped
SingleLineAtHint(ls, fix) ==
    /\ Hint(fix) # None
    /\ Hint(fix)[1] \in 1..Len(ls)
    /\ SearchLineCount(fix) = 1
    /\ Len(splitlines(replace_content(fix), FALSE)) = 1
    /\ Strip(ls[Hint(fix)[1]]) = search_content(fix)

\* C5: when a hinted single-line operation matches line k after trimming,
\* then afterwards line k is the original line with oldText replaced by
\* newText (indentation kept), the file has as many lines as before, and the
\* score is 1.
C5_HintedLineKeepsIndentation ==
    [][\A r \in Runs :
          (Iteration(r) /\ SingleLineAtHint(lines[r], CurrentFix(r)))
          => LET k == Hint(CurrentFix(r))[1]
                 after == readlines(FileAfter(r))
             IN  /\ ScoreAfter(r) = 1
                 /\ Len(after) = Len(lines[r])
                 /\ after[k] = Replace(lines[r][k], search_content(CurrentFix(r)),
                                       replace_content(CurrentFix(r)))]_vars

Started(r) == pc[r] \in {"loop", "opened", "done"}

\* C6: the operations of a batch are applied one at a time in list order,
\* each to the file as the earlier operations wrote it: the files of the run
\* are those the sequential application of the finished operations gives, and
\* what an iteration has read is the latest content of its target file.
C6_AppliedInOrderOnLatestContent ==
    \A r \in Runs :
        Started(r) =>
            /\ copy[r] = ApplyAll(repo, fixes[r], idx[r])
            /\ pc[r] = "opened" =>
                 lines[r] = readlines(ApplyAll(repo, fixes[r], idx[r])[CurrentFix(r).file])

\* a finished two-operation batch on one file whose second operation matched
\* only what the first one wrote
C6_Witness ==
    /\ pc[1] = "done" /\ Len(fixes[1]) = 2
    /\ fixes[1][1].score = 1 /\ fixes[1][2].score = 1
    /\ fixes[1][1].file = fixes[1][2].file
    /\ ~Contains(UniversalNewlines(repo[fixes[1][2].file]), search_content(fixes[1][2]))

\* C7: a failing operation (oldText not found, target file missing) scores 0
\* and the operations after it are still processed: when validate_fixes
\* returns, the loop has gone through the whole list and every operation has
\* the score its own application gives.
C7_FailureDoesNotAbortBatch ==
    \A r \in Runs :
        pc[r] = "done" =>
            /\ idx[r] = Len(fixes[r])
            /\ \A k \in 1..Len(fixes[r]) :
                 LET before == ApplyAll(repo, fixes[r], k - 1)
                     fix == fixes[r][k]
                 IN  fix.score = IF fix.file \in DOMAIN before
                                 THEN ApplyFix(before[fix.file], fix).score
                                 ELSE 0

\* a finished batch whose first operation failed and whose second succeeded
C7_Witness ==
    /\ pc[1] = "done" /\ Len(fixes[1]) = 2
    /\ fixes[1][1].score = 0 /\ fixes[1][1].file \notin DOMAIN repo
    /\ fixes[1][2].score = 1

\* C8: every write of validate_fixes goes to its private copy: the files
\* under repo_path never change, and what a run reads and holds is decided
\* by the repository and its own fixes alone, whatever the other runs do.
C8_RunsAreIsolated ==
    /\ [][repo' = repo]_vars
    /\ [](\A r \in Runs :
            Started(r) =>
                /\ copy[r] = ApplyAll(repo, fixes[r], idx[r])
                /\ pc[r] = "opened" =>
                     current_content[r] = UniversalNewlines(copy[r][CurrentFix(r).file]))

\* run 1 is between its read and its write while run 2 has already written
\* a different content to the same file name of its own copy
C8_Witness ==
    /\ pc[1] = "opened"
    /\ idx[2] >= 1 /\ fixes[2][1].score = 1
    /\ fixes[2][1].file = CurrentFix(1).file
    /\ copy[2] # copy[1]
----------------------------------------------------------------------------
(* Properties of the block parser                                          *)

\* text without its leading and trailing blank lines, every other line as
\* it is
TrimBlankLines(text) ==
    LET ls == Split(text, NL)
        full == {i \in 1..Len(ls) : Strip(ls[i]) # <<>>}
    IN  IF full = {} THEN <<>> ELSE JoinWith(SubSeq(ls, Min(full), Max(full)), NL)

SameEdit(a, b) ==
    /\ a.file = b.file
    /\ a.search = b.search
    /\ a.replace = b.replace
    /\ a.start_line = b.start_line
    /\ a.end_line = b.end_line

\* C9: a fix the parser produced, written in the edit-block syntax and
\* parsed again, gives one fix with the same file, oldText, newText and
\* line hint.
C9_RoundTrip ==
    (ppc = "parsed" /\ origin # None)
        => (Len(parsed) = 1 /\ SameEdit(parsed[1], origin[1]))

\* C10: oldText and newText of a parsed fix are the text between the markers
\* without its leading and trailing blank lines; the indentation of every
\* line, the first included, and the blank lines inside are kept.
C10_OnlyBlankLinesTrimmed ==
    ppc = "parsed" =>
        \A k \in 1..Len(parsed) :
            LET m == SearchReplaceMatch(parsed[k].fix)
            IN  /\ parsed[k].search = TrimBlankLines(m.g3)
                /\ parsed[k].replace = TrimBlankLines(m.g4)

----------------------------------------------------------------------------
(* Properties of the block parsers on several segments                     *)

\* the operations generate_fixes returned, in its order
ParsedOps ==
    [i \in 1..Len(parsed) |-> Op(parsed[i].file, parsed[i].search, parsed[i].replace)]

\* the operations parse_patch_hunks returned for one file, in its order
HunkOps(entry) ==
    [i \in 1..Len(entry.hunks) |->
        Op(entry.file, Strip(Join(entry.hunks[i].old)), Strip(Join(entry.hunks[i].new)))]

\* the operations the well-formed segments of the response state, in the
\* order of the response
Expected ==
    LET good == SelectSeq(suggestion, LAMBDA seg : seg.ok)
    IN  [i \in 1..Len(good) |-> good[i].op]

ExpectedFor(file) == SelectSeq(Expected, LAMBDA o : o.file = file)

BothParsed == ppc = "parsed" /\ hunks # None

\* each parser returns the expected operations and nothing else
YieldsExpected ==
    /\ ParsedOps = Expected
    /\ ~hunks[1].raised
    /\ \A i \in 1..Len(hunks[1].files) :
           HunkOps(hunks[1].files[i]) = ExpectedFor(hunks[1].files[i].file)
    /\ \A i \in 1..Len(Expected) : HasKey(hunks[1].files, Expected[i].file)

\* C11: a response with a segment that lacks its file header or part of the
\* SEARCH / divider / REPLACE triple makes neither parser raise; the
\* malformed segment gives no operation and every well-formed segment
\* before and after it gives its operation.
C11_MalformedSegmentsSkipped ==
    (BothParsed /\ \E i \in 1..Len(suggestion) : ~suggestion[i].ok)
        => YieldsExpected

\* C12: a response of k well-formed segments, several of them for one file
\* included, gives exactly k operations in the order of the response; no
\* earlier operation of a file is lost to a later segment of the same file.
C12_OneOperationPerBlockInOrder ==
    (BothParsed /\ \A i \in 1..Len(suggestion) : suggestion[i].ok)
        => (Len(parsed) = Len(suggestion) /\ YieldsExpected)


\* a well-formed segment and the line hint its SEARCH line states
Hinted(seg, x, y) == [seg |-> seg, x |-> x, y |-> y]

HintedSegments ==
    { Hinted(GoodSegment(A_PY, SEARCH_MARK, <<"a">>, <<"b">>), None, None),
      Hinted(GoodSegment(B_PY, SEARCH_MARK \o <<" ">> \o LINE_OPEN \o FormatInt(4) \o <<")">>, <<"m">>, <<"n">>),
             Some(4), Some(4)),
      Hinted(GoodSegment(A_PY, SEARCH_MARK \o Annotation(4, 4), <<"c">>, <<"d">>), Some(4), Some(4)),
      Hinted(GoodSegment(A_PY, SEARCH_MARK \o Annotation(4, MaxLine), <<"p">>, <<"q">>),
             Some(4), Some(MaxLine)) }

\* the hint generate_fixes gives the one segment of the response
FixHintIs(x, y) ==
    /\ Len(parsed) = 1
    /\ parsed[1].start_line = x
    /\ parsed[1].end_line = y

\* the hint start parse_patch_hunks gives the one segment of the response
HunkStartIs(x) ==
    /\ ~hunks[1].raised
    /\ Len(hunks[1].files) = 1
    /\ Len(hunks[1].files[1].hunks) = 1
    /\ hunks[1].files[1].hunks[1].start = x

\* C28: no annotation gives no hint, '(line X)' gives the hint (X, X) and
\* '(line X-Y)' gives the hint (X, Y), in generate_fixes and in
\* parse_patch_hunks, whose hint start is X in both annotated forms.
C28_AnnotationGivesHint ==
    \A h \in HintedSegments :
        suggestion = <<h.seg>> =>
            /\ ppc = "parsed" => FixHintIs(h.x, h.y)
            /\ hunks # None => HunkStartIs(h.x)


\* the two batches are the same operations, produced by generate_fixes,
\* under line hints that may differ
DifferOnlyInHint(a, b) ==
    /\ Len(a) = Len(b)
    /\ \A i \in 1..Len(a) :
           /\ a[i].file = b[i].file
           /\ a[i].search = b[i].search
           /\ a[i].replace = b[i].replace
           /\ a[i].fix = b[i].fix
           /\ a[i].line_number = None
           /\ b[i].line_number = None

\* C30: two runs of validate_fixes on the same repository content whose
\* operations differ only in start_line and end_line give the same scores
\* and the same files: the hint the parser records does not influence
\* where or whether an operation is applied.
C30_HintDoesNotInfluence ==
    \A r1, r2 \in Runs :
        pc[r1] = "done" /\ pc[r2] = "done" /\ DifferOnlyInHint(fixes[r1], fixes[r2]) =>
            /\ \A i \in 1..Len(fixes[r1]) : fixes[r1][i].score = fixes[r2][i].score
            /\ copy[r1] = copy[r2]
            /\ consolidated_diff[r1] = consolidated_diff[r2]

\* the same operation without a hint and with a hint far from its text:
\* both runs applied it and left the same file
C30_Witness ==
    /\ pc[1] = "done"
    /\ pc[2] = "done"
    /\ Len(fixes[1]) = 1
    /\ DifferOnlyInHint(fixes[1], fixes[2])
    /\ fixes[1][1].start_line = None
    /\ fixes[2][1].start_line = Some(7)
    /\ fixes[1][1].score = 1
    /\ fixes[2][1].score = 1
    /\ copy[1] = copy[2]
    /\ copy[1] # repo

----------------------------------------------------------------------------
(* Properties of apply_patch_directly                                      *)

\* the search text of the hunk is in the lines, starting in line p + 1
MatchedAt(ls, hunk, p) ==
    /\ p + Len(hunk.old) <= Len(ls)
    /\ Contains(Join(SubSeq(ls, p + 1, p + Len(hunk.old))), Strip(Join(hunk.old)))

\* final is ls after every hunk of hs, in order, took the place of lines it
\* matched in the lines as the hunks before it left them
RECURSIVE SubstitutedAll(_, _, _)
SubstitutedAll(ls, hs, final) ==
    IF hs = <<>> THEN ls = final
    ELSE \E p \in 0..Len(ls) :
             /\ MatchedAt(ls, Head(hs), p)
             /\ SubstitutedAll(SubSeq(ls, 1, p) \o Head(hs).new
                                   \o SubSeq(ls, p + Len(Head(hs).old) + 1, Len(ls)),
                               Tail(hs), final)

\* C29: the file is written only after every hunk has been matched: until
\* the call returns True the file on disk is what it was, a call that
\* returns False leaves it so, and a call that returns True has substituted
\* every hunk, each matched against the lines as the earlier hunks left
\* them.
C29_AllOrNothing ==
    /\ apc \in {"call", "loop"} => patch_disk = patch_before /\ applied = None
    /\ apc = "done" => applied \in {Some(TRUE), Some(FALSE)}
    /\ applied = Some(FALSE) => patch_disk = patch_before
    /\ applied = Some(TRUE) =>
           /\ patch_before # None
           /\ hunk_idx = Len(hunk_list)
           /\ SubstitutedAll(readlines(patch_before[1]), hunk_list, readlines(patch_disk[1]))
           /\ patch_disk[1] = writelines(patch_lines)

\* two hunks were substituted, the second one found only in the lines the
\* first one left
C29_Witness ==
    /\ applied = Some(TRUE)
    /\ Len(hunk_list) = 2
    /\ hunk_list[2].old = << <<"x", "\n">> >>
    /\ ~Contains(patch_before[1], <<"x">>)
    /\ Contains(patch_disk[1], <<"y", "\n", "z", "\n">>)

----------------------------------------------------------------------------
(* Properties of create_file_skeleton                                      *)

SourceRows == Split(source_text, NL)
SkeletonRows == IF skeleton = <<>> THEN <<>> ELSE Split(skeleton, NL)

\* the rows of the skeleton that are kept lines, not ellipsis rows
KeptRows == SelectSeq(SkeletonRows, LAMBDA row : ~MatchAt(row, 1, ELLIPSIS))

\* the line number a numbered row records, and the line text after it
RowNumber(row) == ParseInt(Strip(SubSeq(row, 1, Find(row, <<" ", "|">>, 1) - 1)))
RowText(row) == SubSeq(row, Find(row, <<" ", "|">>, 1) + 2, Len(row))

\* a is b with some elements left out
RECURSIVE IsSubsequence(_, _)
IsSubsequence(a, b) ==
    IF a = <<>> THEN TRUE
    ELSE IF b = <<>> THEN FALSE
    ELSE IF Head(a) = Head(b) THEN IsSubsequence(Tail(a), Tail(b))
    ELSE IsSubsequence(a, Tail(b))

\* C13: every kept row of the skeleton is the unchanged text of the source
\* line whose number it records, the recorded numbers increase strictly
\* (without numbers: the kept rows are a subsequence of the source lines),
\* and an empty text gives an empty skeleton.
C13_SkeletonIsSubsequence ==
    spc = "skeleton" =>
        /\ source_text = <<>> => skeleton = <<>>
        /\ IF line_numbers
           THEN /\ \A i \in 1..Len(KeptRows) :
                       /\ Find(KeptRows[i], <<" ", "|">>, 1) > 1
                       /\ RowNumber(KeptRows[i]) \in 1..Len(SourceRows)
                       /\ SourceRows[RowNumber(KeptRows[i])] = RowText(KeptRows[i])
                /\ \A i, j \in 1..Len(KeptRows) :
                       i < j => RowNumber(KeptRows[i]) < RowNumber(KeptRows[j])
           ELSE IsSubsequence(KeptRows, SourceRows)

\* the skeleton of the long file: a kept line with a two-digit number after
\* omitted lines, and padded one-digit numbers
C13_Witness ==
    /\ spc = "skeleton"
    /\ line_numbers
    /\ Len(KeptRows) >= 3
    /\ \E i \in 1..Len(KeptRows) : RowNumber(KeptRows[i]) = 11
    /\ \E i \in 1..Len(SkeletonRows) : MatchAt(SkeletonRows[i], 1, ELLIPSIS)


\* the source lines: the pieces between newlines, without the empty piece
\* after a final newline
SourceLineNumbers ==
    IF SourceRows # <<>> /\ SourceRows[Len(SourceRows)] = <<>>
    THEN 1..(Len(SourceRows) - 1) ELSE 1..Len(SourceRows)

\* the lines the skeleton is to retain: a definition keyword in the
\* stripped text, a binding at indentation zero with a declaration keyword
\* on its left-hand side, or an import marker
IsBinding(line) ==
    /\ Contains(Strip(line), <<"=">>)
    /\ ~MatchAt(Strip(line), 1, <<"#">>)
    /\ Len(line) = Len(LStrip(line))
    /\ AnyIn(DeclarationKeywords, Head(Split(Strip(line), <<"=">>)))

ToRetain ==
    {i \in SourceLineNumbers :
        /\ Strip(SourceRows[i]) # <<>>
        /\ \/ AnyIn(DefinitionKeywords, Strip(SourceRows[i]))
           \/ IsBinding(SourceRows[i])
           \/ AnyIn(ImportKeywords, Strip(SourceRows[i]))}

\* the numbered skeleton of the same text, from which the source line of
\* every row can be read
NumberedRows ==
    LET numbered == create_file_skeleton(source_text, TRUE)
    IN  IF numbered = <<>> THEN <<>> ELSE Split(numbered, NL)

IsEllipsis(row) == MatchAt(row, 1, ELLIPSIS)

RetainedNumbers ==
    {RowNumber(NumberedRows[i]) : i \in {j \in 1..Len(NumberedRows) : ~IsEllipsis(NumberedRows[j])}}

\* rows of the skeleton and of the numbered skeleton correspond one to one
SameShape ==
    /\ Len(SkeletonRows) = Len(NumberedRows)
    /\ \A i \in 1..Len(SkeletonRows) : IsEllipsis(SkeletonRows[i]) <=> IsEllipsis(NumberedRows[i])

\* C23: every non-blank line with a definition keyword, every binding at
\* indentation zero with a declaration keyword or type annotation on its
\* left-hand side and every line with an import marker is retained, import
\* lines that contain an equals sign included.
C23_RetainsStructuralLines ==
    spc = "skeleton" =>
        /\ SameShape
        /\ ToRetain \subseteq RetainedNumbers

\* C24: between two consecutively retained lines there is exactly one
\* ellipsis row when their line numbers differ by more than 1, also when
\* only blank lines lie between them, and none when they are adjacent.
C24_OneEllipsisPerGap ==
    spc = "skeleton" =>
        /\ SameShape
        /\ \A p, q \in 1..Len(NumberedRows) :
               /\ p < q
               /\ ~IsEllipsis(NumberedRows[p])
               /\ ~IsEllipsis(NumberedRows[q])
               /\ \A k \in (p + 1)..(q - 1) : IsEllipsis(NumberedRows[k])
               => q - p - 1 =
                      IF RowNumber(NumberedRows[q]) - RowNumber(NumberedRows[p]) > 1
                      THEN 1 ELSE 0

\* the long file without line numbers: lines 1 and 3 with only a blank line
\* between them, lines 3 and 4 adjacent, then lines 9 and 11
C24_Witness ==
    /\ spc = "skeleton"
    /\ ~line_numbers
    /\ SourceRows = LongSource
    /\ RetainedNumbers = {1, 3, 4, 9, 11}
    /\ Len(SkeletonRows) = 8
    /\ IsEllipsis(SkeletonRows[2])
    /\ ~IsEllipsis(SkeletonRows[4])
    /\ IsEllipsis(SkeletonRows[5])

\* the lines left out, and the first line of each contiguous run of them
OmittedLines == SourceLineNumbers \ RetainedNumbers
OmittedRuns == {i \in OmittedLines : i - 1 \notin OmittedLines}

\* C25: every contiguous run of omitted source lines is marked by a single
\* ellipsis placeholder, a run before the first retained line and a run
\* after the last retained line included.
C25_EveryOmittedRunIsMarked ==
    spc = "skeleton" =>
        /\ Cardinality({i \in 1..Len(SkeletonRows) : IsEllipsis(SkeletonRows[i])})
               = Cardinality(OmittedRuns)
        /\ 1 \in OmittedLines /\ SkeletonRows # <<>> => IsEllipsis(SkeletonRows[1])
        /\ SourceLineNumbers # {} /\ Max(SourceLineNumbers \cup {0}) \in OmittedLines /\ SkeletonRows # <<>>
               => IsEllipsis(SkeletonRows[Len(SkeletonRows)])


----------------------------------------------------------------------------
(* Properties of extract_relevant_sections                                 *)

Span(file, type, name, s, e) == [file |-> file, type |-> type, name |-> name, s |-> s, e |-> e]

\* where the definitions of the project's files are, read off the files:
\* 1-based, inclusive; for x, assigned twice in a.py, the first assignment
Spans ==
    { Span(A_PY, "function", <<"f", "o", "o">>, 10, 12),
      Span(A_PY, "function", <<"b", "a", "r">>, 6, 7),
      Span(A_PY, "class", <<"A">>, 5, 7),
      Span(A_PY, "variable", <<"i", "t", "e", "m", "s">>, 3, 3),
      Span(A_PY, "variable", <<"x">>, 4, 4),
      Span(A_PY, "variable", <<"y">>, 11, 11),
      Span(B_PY, "function", <<"f", "o", "o">>, 1, 2) }

\* the span of the element the call was made for, if it has one
CalledSpans ==
    {sp \in Spans : /\ sp.file = file_path
                    /\ elements = <<Element(sp.type, sp.name)>>}

\* the lines of the file the call was made for: the pieces between newlines
FileLines == Split(UniversalNewlines(project[file_path]), NL)

\* lines max(1, s - W) .. min(fileLineCount, e + W), 1-based, inclusive
Excerpt(sp) ==
    SubSeq(FileLines, Max({1, sp.s - context_window}),
           Min({Len(FileLines), sp.e + context_window}))

Definition(file, type, name, s, e, depth) ==
    [file |-> file, type |-> type, name |-> name, s |-> s, e |-> e, depth |-> depth]

Definitions ==
    { Definition(A_PY, "function", <<"f", "o", "o">>, 10, 12, 1),
      Definition(A_PY, "function", <<"b", "a", "r">>, 6, 7, 2),
      Definition(A_PY, "class", <<"A">>, 5, 7, 1),
      Definition(A_PY, "variable", <<"i", "t", "e", "m", "s">>, 3, 3, 1),
      Definition(A_PY, "variable", <<"x">>, 4, 4, 1),
      Definition(A_PY, "variable", <<"x">>, 14, 14, 1),
      Definition(A_PY, "variable", <<"y">>, 11, 11, 2),
      Definition(B_PY, "function", <<"f", "o", "o">>, 1, 2, 1),
      Definition(E_PY, "class", <<"A">>, 1, 3, 1),
      Definition(E_PY, "function", <<"f", "o", "o">>, 2, 3, 2),
      Definition(E_PY, "function", <<"f", "o", "o">>, 4, 5, 1) }

\* the definitions the element of the call names in the file of the call
CalledDefinitions ==
    {d \in Definitions : /\ d.file = file_path
                         /\ elements = <<Element(d.type, d.name)>>}

\* the section of one definition: header, rule, its lines widened by the
\* window, rule
Framed(d) ==
    JoinWith(<< <<"=", "=", "=", " ">> \o SectionLabel[d.type] \o <<":", " ">> \o d.name \o <<" ", "=", "=", "=">>,
                Repeat("-", 40) >>
             \o Excerpt(d) \o << Repeat("-", 40) >>, NL)

FirstTextual ==
    {d \in CalledDefinitions : \A o \in CalledDefinitions : d.s <= o.s}

FirstBreadthFirst ==
    {d \in CalledDefinitions : \A o \in CalledDefinitions :
        d.depth < o.depth \/ (d.depth = o.depth /\ d.s <= o.s)}

\* C21 as stated: when several definitions in the file have the requested
\* name, the section returned first is that of the first textual occurrence
\* (the one a depth-first walk meets first).
C21_FirstTextualOccurrence ==
    rpc = "sections" =>
        \A d \in FirstTextual :
            /\ Len(sections[1].sections) >= 1
            /\ sections[1].sections[1] = Framed(d)

\* C21 amended: when several definitions in the file have the requested
\* name, the section returned first is that of the one a breadth-first walk
\* meets first: the least deeply nested, and among those the first in the
\* text.
C21_FirstInBreadthFirstWalk ==
    rpc = "sections" =>
        \A d \in FirstBreadthFirst :
            /\ Len(sections[1].sections) >= 1
            /\ sections[1].sections[1] = Framed(d)

\* foo of e.py: the method at line 2 is passed over for the function at line 4
C21_Witness ==
    /\ rpc = "sections"
    /\ file_path = E_PY
    /\ elements = <<Element("function", <<"f", "o", "o">>)>>
    /\ context_window = 0
    /\ Len(sections[1].sections) = 1
    /\ Contains(sections[1].sections[1], <<"d", "e", "f", " ", "f", "o", "o", "(", ")", ":">>)
    /\ ~Contains(sections[1].sections[1], <<"s", "e", "l", "f">>)

\* C22: a descriptor of kind function, class or variable contributes zero
\* or one excerpt, and an excerpt holds the lines of one span only.
C22_AtMostOneExcerptOfOneSpan ==
    rpc = "sections" /\ ~sections[1].raised =>
        /\ Len(sections[1].sections) <= 1
        /\ \A i \in 1..Len(sections[1].sections) :
               \E d \in CalledDefinitions : sections[1].sections[i] = Framed(d)


----------------------------------------------------------------------------
(* Properties of the resolver: locate_specific_lines and the collecting    *)
(* loop of generate_fixes                                                  *)

\* the files of Project on which ast.parse raises SyntaxError
UnparsableOfProject ==
    {path \in DOMAIN Project : ~ParseModule(UniversalNewlines(Project[path])).ok}

\* the file exists under repo_path and ast.parse raises SyntaxError on it
Unparsable(path) ==
    /\ path \in DOMAIN project
    /\ IF project[path] = Project[path] THEN path \in UnparsableOfProject
       ELSE ~ParseModule(UniversalNewlines(project[path])).ok

\* locate_specific_lines calls the symbol resolver on every file of code_elements
ResolvesUnparsable == \E i \in 1..Len(code_elements) : Unparsable(code_elements[i].file)

\* generate_fixes calls the symbol resolver on every location that has a name
\* and is not of type line
CollectsUnparsable ==
    \E i \in 1..Len(edit_locations) :
        /\ Unparsable(edit_locations[i].file)
        /\ \E k \in 1..Len(edit_locations[i].locations) :
               LET location == edit_locations[i].locations[k]
               IN  location.type # "line" /\ location.name # None

\* C15: when a file the symbol resolver is called on cannot be parsed, the
\* SyntaxError leaves locate_specific_lines and generate_fixes: the except
\* clause of locate_specific_lines never catches it, the call does not
\* return a dict or a list of contents, and nothing runs after it.
C15_SyntaxErrorSurfaces ==
    /\ located # None =>
           /\ located[1].raised <=> ResolvesUnparsable
           /\ located[1].caught # "SyntaxError"
           /\ located[1].raised => lpc = "raised" /\ contents = None
    /\ contents # None =>
           /\ contents[1].raised <=> CollectsUnparsable
           /\ contents[1].raised => lpc = "raised"

\* locate_specific_lines was called with c.py, which is not Python, among
\* the files of code_elements, and raised
C15_Witness ==
    /\ lpc = "raised"
    /\ located # None
    /\ located[1].raised
    /\ \E i \in 1..Len(code_elements) : code_elements[i].file = C_PY
    /\ Unparsable(C_PY)

\* C16: the dict locate_specific_lines returns has no file with an empty
\* list of locations.
C16_NoEmptyLocationLists ==
    located # None /\ ~located[1].raised =>
        \A i \in 1..Len(located[1].edit_locations) :
            located[1].edit_locations[i].locations # <<>>

\* the lines between the fences of the line-level response
ResponseLines ==
    IF Contains(line_response, TICKS)
    THEN Split(Strip(Split(line_response, TICKS)[2]), <<"\n">>) ELSE <<>>
IsFileLine(line) == Strip(line) # <<>> /\ ~Contains(line, <<":">>)

\* the file a descriptor line belongs to: the nearest file line above it
FileOf(ls, i) ==
    LET above == {j \in 1..(i - 1) : IsFileLine(ls[j])}
    IN  IF above = {} THEN None ELSE Some(Strip(ls[Max(above)]))

\* what one descriptor of one file resolves to when it is the only
\* descriptor of the response and only the files that parse are looked at
ResolvedAlone(path, line) ==
    LET parsable == SelectSeq(code_elements, LAMBDA e : ~Unparsable(e.file))
        alone == locate_specific_lines(project, parsable, context_window,
                                       Fenced(<<path, line>>))
    IN  IF alone.edit_locations = <<>> THEN <<>>
        ELSE alone.edit_locations[1].locations

LocationsOf(edit, path) ==
    IF InDict(edit, path) THEN edit[Lookup(edit, path)].locations ELSE <<>>

\* every descriptor of the response that resolves on its own is in the list
\* of its file
ResolvedAreLocated ==
    \A i \in 1..Len(ResponseLines) :
        LET line == ResponseLines[i]
            path == FileOf(ResponseLines, i)
        IN  ~IsFileLine(line) /\ path # None =>
                \A k \in 1..Len(ResolvedAlone(path[1], line)) :
                    \E m \in 1..Len(LocationsOf(located[1].edit_locations, path[1])) :
                        LocationsOf(located[1].edit_locations, path[1])[m]
                            = ResolvedAlone(path[1], line)[k]

\* C17: locate_specific_lines returns, and every descriptor of the response
\* that resolves on its own is in the list of its file, whatever the other
\* descriptors of the response are.
C17_FailedDescriptorIsDropped ==
    located # None => ~located[1].raised /\ ResolvedAreLocated

\* the line numbers the response names for a file in 'line: n' descriptors
LineNumbersFor(path) ==
    { IntOf(Split(Strip(ResponseLines[i]), <<"l", "i", "n", "e", ":", " ">>)[2])[1] :
        i \in {j \in 1..Len(ResponseLines) :
                 /\ MatchAt(Strip(ResponseLines[j]), 1, <<"l", "i", "n", "e", ":", " ">>)
                 /\ IntOf(Split(Strip(ResponseLines[j]), <<"l", "i", "n", "e", ":", " ">>)[2]) # None
                 /\ FileOf(ResponseLines, j) = Some(path)} }

\* the lines of a file as they are on disk, without their line ends
PlainLines(path) == splitlines(UniversalNewlines(project[path]), FALSE)

\* C26: a location resolved from 'line: n' with window W on a file of L
\* lines has 1 <= start <= end <= L, start = max(1, n-W), end = min(L, n+W),
\* and its content is the unmodified text of the lines start..end, without
\* line-number prefixes.
C26_LineLocationIsVerbatim ==
    located # None /\ ~located[1].raised =>
        \A i \in 1..Len(located[1].edit_locations) :
            LET path == located[1].edit_locations[i].file
                locations == located[1].edit_locations[i].locations
            IN  \A k \in 1..Len(locations) :
                    locations[k].type = "line" =>
                        /\ path \in DOMAIN project
                        /\ 1 <= locations[k].start[1]
                        /\ locations[k].start[1] <= locations[k].end[1]
                        /\ locations[k].end[1] <= Len(PlainLines(path))
                        /\ \E n \in LineNumbersFor(path) :
                               /\ locations[k].start[1] = Max({1, n - context_window})
                               /\ locations[k].end[1] = Min({Len(PlainLines(path)), n + context_window})
                        /\ locations[k].content =
                               JoinWith(SubSeq(PlainLines(path), locations[k].start[1],
                                               locations[k].end[1]), NL)

SymbolKinds == {"function", "class", "variable"}
SymbolKeyword ==
    [function |-> <<"f", "u", "n", "c", "t", "i", "o", "n">>, class |-> <<"c", "l", "a", "s", "s">>, variable |-> <<"v", "a", "r", "i", "a", "b", "l", "e">>]

\* the descriptor line reads 'kind: name'; the name it gives
DescriptorKindIs(line, kind) ==
    MatchAt(Strip(line), 1, SymbolKeyword[kind] \o <<":", " ">>)
DescriptorName(line) ==
    Strip(SubSeq(Strip(line), Find(Strip(line), <<":", " ">>, 1) + 2, Len(Strip(line))))

\* what the symbol locator returns for a symbol of the file
LocatedAs(path, kind, name) ==
    IF path \notin DOMAIN project \/ Unparsable(path) THEN <<>>
    ELSE The({ found.sections : found \in
                 {extract_relevant_sections(project, path, <<Element(kind, name)>>,
                                            context_window)} })

\* C27: every descriptor 'function: name', 'class: name' or 'variable: name'
\* of the response whose symbol exists in the file is a named location of
\* that file in the result, with the section the symbol locator returns for
\* it under the configured window.
C27_NamedSymbolsAreResolved ==
    located # None /\ ~located[1].raised =>
        \A i \in 1..Len(ResponseLines) :
            LET line == ResponseLines[i]
                path == FileOf(ResponseLines, i)
            IN  /\ path # None
                /\ Contains(Strip(line), <<":", " ">>)
                /\ \E kind \in SymbolKinds :
                       /\ DescriptorKindIs(line, kind)
                       /\ LocatedAs(path[1], kind, DescriptorName(line)) # <<>>
                => \E kind \in SymbolKinds :
                       /\ DescriptorKindIs(line, kind)
                       /\ \E m \in 1..Len(LocationsOf(located[1].edit_locations, path[1])) :
                              LET location == LocationsOf(located[1].edit_locations, path[1])[m]
                              IN  /\ location.type = kind
                                  /\ location.name = DescriptorName(line)
                                  /\ location.content = LocatedAs(path[1], kind, DescriptorName(line))[1]


----------------------------------------------------------------------------
(* Properties of find_patch                                                *)

\* the fix, tried on the file as the project has it, is found and changes it
AppliesAlone(fix) ==
    /\ fix.file \in DOMAIN project
    /\ ApplyFix(project[fix.file], fix).score = 1
    /\ ApplyFix(project[fix.file], fix).raw # project[fix.file]

\* C18: find_patch never raises; once the code elements are known it returns
\* a diff, every descriptor of the line-level response that resolves on its
\* own is among the edit locations, and the file of every parsed operation
\* that applies on its own is in the diff.
C18_ReturnsPartialResult ==
    /\ lpc # "raised"
    /\ lpc = "returned" /\ located # None =>
           /\ returned # None
           /\ ResolvedAreLocated
           /\ \A k \in 1..Len(parsed) :
                  AppliesAlone(parsed[k]) => parsed[k].file \in DOMAIN returned[1]

----------------------------------------------------------------------------
(* Properties of one operation of validate_fixes                           *)

\* C19: every iteration of validate_fixes ends with score 1 or score 0; with
\* score 1 oldText was in the text read and the file holds that text with
\* one occurrence of oldText replaced by newText; with score 0 the file's
\* characters are what they were before the iteration.
C19_EndsAppliedOrRejected ==
    [][\A r \in Runs :
          /\ Iteration(r) =>
                 /\ ScoreAfter(r) \in {0, 1}
                 /\ ScoreAfter(r) = 1 =>
                        /\ Contains(current_content[r], search_content(CurrentFix(r)))
                        /\ ReplacesOneSpan(current_content[r], FileAfter(r),
                                           search_content(CurrentFix(r)),
                                           replace_content(CurrentFix(r)))
                 /\ ScoreAfter(r) = 0 => FileAfter(r) = FileBefore(r)
          /\ (pc[r] = "loop" /\ idx'[r] = idx[r] + 1) =>
                 ScoreAfter(r) = 0 /\ copy'[r] = copy[r]]_vars

\* C20: the fix whose write-back failed does not end with the score of a fix
\* whose oldText was not found, nor with the score of an applied fix, and
\* the loop goes on to the next fix.
C20_WriteErrorIsHardFailure ==
    [][\A r \in Runs :
          (pc[r] = "opened" /\ <<r, idx[r] + 1>> \in write_failed')
          => /\ ScoreAfter(r) \notin {0, 1}
             /\ pc'[r] = "loop"
             /\ idx'[r] = idx[r] + 1]_vars

====
